---- MODULE Spec2Model ----
(***************************************************************************)
(* Community authentication (SSO broker) of pgweb, account/views.py.       *)
(*                                                                         *)
(* Time is counted in whole hours.  Strings are sequences of one-character *)
(* strings; a URL is a sequence of tokens.  Python's None for the locals   *)
(* d and su is the empty sequence: the code only ever tests their truth    *)
(* value ("if d:", "elif su:"), and None and '' are both false.            *)
(***************************************************************************)
EXTENDS Integers, Sequences, FiniteSets, TLC

\* ------------------------------------------------------------------ bounds
MaxTime == 2
MaxReq == 2
MaxEnc == 2

\* The hour at which the model starts: the accounts exist by then.
StartTime == 1

\* ------------------------------------------------- the registered partners
Users == {1, 2, 3}
Anonymous == 0

Sites == {1, 2, 3}
UnknownSite == 9
SiteIds == Sites \cup {UnknownSite}
Orgs == {"orgA", "orgB"}

\* CommunityAuthSite rows: org, cooloff_hours, cryptkey, redirecturl.
CommunityAuthSite ==
    [s \in Sites |->
        CASE s = 1 -> [org |-> "orgA", cooloff_hours |-> 1, cryptkey |-> "key1", redirecturl |-> "https://one/auth"]
          [] s = 2 -> [org |-> "orgA", cooloff_hours |-> 0, cryptkey |-> "key2", redirecturl |-> "https://two/auth"]
          [] s = 3 -> [org |-> "orgB", cooloff_hours |-> 1, cryptkey |-> "key3", redirecturl |-> "https://three/auth"]]

\* Organisation.require_consent
require_consent == [o \in Orgs |-> o = "orgA"]

\* ------------------------------------------------------------ user records
\* User 1 is the user at the browser: the account was created as the model starts and is
\* complete or lacks one of the three fields a handoff needs.  User 2 is a
\* complete account that does not log in.  create_user sets last_login to
\* the time of creation.
Browsers == {1}

OAUTH_PASSWORD_STORE == "oauth_signin_account_no_password"

UserOneProfiles ==
    { [username |-> <<"u", "1">>, first_name |-> f, last_name |-> l,
       email |-> e, date_joined |-> StartTime, last_login |-> StartTime, is_active |-> TRUE,
       password |-> "hashed"] :
        <<f, l, e>> \in { << <<"A">>, <<"b">>, <<"a", "@">> >>,
                          << <<>>,    <<"b">>, <<"a", "@">> >>,
                          << <<"A">>, <<>>,    <<"a", "@">> >>,
                          << <<"A">>, <<"b">>, <<>> >> } }

UserTwo ==
    [username |-> <<"u", "2">>, first_name |-> <<"B">>, last_name |-> <<"a">>,
     email |-> <<"b", "@">>, date_joined |-> 0, last_login |-> 0, is_active |-> TRUE, password |-> "hashed"]

\* User 3 is an account that has been deactivated.
UserThree ==
    [first_name |-> <<"A">>, last_name |-> <<"b">>, username |-> <<"u", "3">>,
     email |-> <<"a", "@">>, date_joined |-> 0, last_login |-> 0, is_active |-> FALSE, password |-> "hashed"]

\* SecondaryEmail rows (id, user, email, confirmed, token) at the start; the
\* token of a row is a number that stands for its random token, 0 for ''.
SecondaryEmail ==
    { [id |-> 1, user |-> 1, email |-> <<"c", "@">>, confirmed |-> TRUE, token |-> 0],
      [id |-> 2, user |-> 1, email |-> <<"b", "@">>, confirmed |-> TRUE, token |-> 0],
      [id |-> 3, user |-> 1, email |-> <<"d", "@">>, confirmed |-> FALSE, token |-> 3],
      [id |-> 4, user |-> 2, email |-> <<"e", "@">>, confirmed |-> FALSE, token |-> 4],
      [id |-> 5, user |-> 3, email |-> <<"x", "@">>, confirmed |-> TRUE, token |-> 0] }

\* UserProfile rows with their ssh key and modification time
UserProfile ==
    [u \in Users |->
        IF u = 1 THEN [sshkey |-> <<"k">>, lastmodified |-> 1]
                 ELSE [sshkey |-> <<>>, lastmodified |-> 0]]

VARIABLES
    now,        \* the wall clock (datetime.now(), CURRENT_TIMESTAMP, time.time())
    users,      \* auth_user rows
    session,    \* session[b]: the user logged in from browser b, or Anonymous
    consents,   \* CommunityAuthConsent rows [user, org, consentgiven]
    lastlogin,  \* account_communityauthlastlogin rows, keyed (user, site)
    req,        \* the communityauth requests in flight
    rnd,        \* how many 16-byte reads the random source has served
    ivlog,      \* the IV of every encryption made so far, in order
    resp,       \* the last response sent
    handoffs,   \* handoffs[u, s]: requests of user u for site s that passed all checks
    grants,     \* grants[u, o]: when u first submitted a valid consent form for o
    sess,       \* sess[b]: the values kept in request.session for browser b
    wire,       \* the last encryption at the level of bytes, and its encoded text
    secondaryemail  \* account_secondaryemail: the rows, and the next id of its sequence

vars == <<now, users, session, consents, lastlogin, req, rnd, ivlog, resp, handoffs, grants, sess, wire,
         secondaryemail>>

Reqs == 1..MaxReq
NoRow == [lastlogin |-> -1, logincount |-> 0]
NoEnc == [key |-> "", iv |-> 0, ivlen |-> 0, plain |-> <<>>]
NoGrant == 0 - 1
IdleReq == [pc |-> "idle", uid |-> Anonymous, site |-> UnknownSite, GET |-> <<>>, urldata |-> <<>>]

\* A response: the view that sent it, what it is, the site id and the user of
\* the request, the Location of a redirect, the next field of a form, the
\* encrypted payload, and the request that was answered.
NoRequest == [b |-> 0, method |-> "", GET |-> <<>>, POST |-> <<>>]

Response(ep, kind, siteid, user, location, next, enc) ==
    [ep |-> ep, kind |-> kind, siteid |-> siteid, user |-> user,
     location |-> location, next |-> next, enc |-> enc, rq |-> NoRequest]

Answering(response, b, method, GET, POST) ==
    [response EXCEPT !.rq = [b |-> b, method |-> method, GET |-> GET, POST |-> POST]]

NoResponse == Response("", "none", UnknownSite, Anonymous, <<>>, <<>>, NoEnc)

\* An empty request.session, and no encryption made yet.
EmptySession == <<>>
NoWire == [by |-> "", site |-> UnknownSite, plain |-> <<>>, padded |-> <<>>, iv |-> <<>>, cipher |-> <<>>,
           i |-> <<>>, d |-> <<>>, text |-> <<>>]

Init ==
    /\ now = StartTime
    /\ \E p \in UserOneProfiles : users = [u \in Users |-> IF u = 1 THEN p ELSE IF u = 2 THEN UserTwo ELSE UserThree]
    /\ session = [b \in Browsers |-> Anonymous]
    /\ consents = {}
    /\ lastlogin = [k \in Users \X Sites |-> NoRow]
    /\ req = [r \in Reqs |-> IdleReq]
    /\ rnd = 0
    /\ ivlog = <<>>
    /\ resp = NoResponse
    /\ handoffs = [k \in Users \X Sites |-> 0]
    /\ grants = [k \in Users \X Orgs |-> NoGrant]
    /\ sess = [b \in Browsers |-> EmptySession]
    /\ wire = NoWire
    /\ secondaryemail = [rows |-> SecondaryEmail, nextid |-> Cardinality(SecondaryEmail) + 1]

\* ------------------------------------------------------ urllib.parse.quote_plus
\* Characters quote never escapes (letters, digits and "_.-~"), as far as the
\* model's strings use them.
AlwaysSafe ==
    {"a", "b", "c", "d", "e", "f", "k", "l", "s", "t", "u", "x", "A", "B",
     "0", "1", "2", "3", "4", "5", "6", "7", "8", "9", "-", "_", ".", "~"}

\* The %XX escape of a character outside the safe set; the multi-character
\* path tokens of a URL are escaped character by character.
PercentEscape(c) ==
    CASE c = "+" -> <<"%", "2", "B">>
      [] c = "/" -> <<"%", "2", "F">>
      [] c = "?" -> <<"%", "3", "F">>
      [] c = "=" -> <<"%", "3", "D">>
      [] c = "$" -> <<"%", "2", "4">>
      [] c = "&" -> <<"%", "2", "6">>
      [] c = "@" -> <<"%", "4", "0">>
      [] c = "%" -> <<"%", "2", "5">>
      [] c = "," -> <<"%", "2", "C">>
      [] c = "/account/auth/" -> <<"%2Faccount%2Fauth%2F">>
      [] OTHER -> <<"%", "?", "?">>

RECURSIVE quote_plus(_, _)
quote_plus(str, safe) ==
    IF str = <<>> THEN <<>>
    ELSE LET c == Head(str)
             q == IF c \in AlwaysSafe \cup safe THEN <<c>>
                  ELSE IF c = " " THEN <<"+">>
                  ELSE PercentEscape(c)
         IN q \o quote_plus(Tail(str), safe)

\* ------------------------------------------------------- communityauth, locals
\* su taken as it comes.
LegacySuburl_Any(GET) == IF "su" \in DOMAIN GET THEN GET.su ELSE <<>>

\* su: the legacy payload, kept only when it starts with '/'.
LegacySuburl(GET) ==
    IF "su" \in DOMAIN GET
    THEN (IF GET.su # <<>> /\ Head(GET.su) = "/" THEN GET.su ELSE <<>>)
    ELSE <<>>

\* d with the characters quote_plus would change taken out, the rest kept.
DataParam_Strip(GET) ==
    IF "d" \in DOMAIN GET
    THEN SelectSeq(GET.d, LAMBDA c : <<c>> = quote_plus(<<c>>, {"=", "$"}))
    ELSE <<>>

\* d: the payload, dropped when it holds a character quote_plus would change.
DataParam(GET) ==
    IF "d" \in DOMAIN GET
    THEN (IF GET.d # quote_plus(GET.d, {"=", "$"}) THEN <<>> ELSE GET.d)
    ELSE <<>>

UrlData(GET) ==
    LET su == LegacySuburl(GET)
        d == DataParam(GET)
    IN IF d # <<>> THEN <<"?", "d", "=">> \o d
       ELSE IF su # <<>> THEN <<"?", "s", "u", "=">> \o su
       ELSE <<>>

\* '/account/auth/%s/%s' % (siteid, urldata)
ReturnPath(siteid, urldata) == <<"/account/auth/", ToString(siteid), "/">> \o urldata

\* '/account/auth/{0}/consent/?{1}'.format(siteid, urlencode({'next': ...}))
ConsentUrl(siteid, urldata) ==
    <<"/account/auth/", ToString(siteid), "/consent/?", "next", "=">>
        \o quote_plus(ReturnPath(siteid, urldata), {})

\* -------------------------------------------------------- communityauth, gates
\* The check of the names alone.
ProfileIncomplete_NamesOnly(u) ==
    u.first_name = <<>> \/ u.last_name = <<>>

ProfileIncomplete(u) ==
    u.first_name = <<>> \/ u.last_name = <<>> \/ u.email = <<>>

\* The window counted from the last login.
InCooloff_LastLogin(site, u, t) ==
    /\ site.cooloff_hours > 0
    /\ (t - u.last_login) < site.cooloff_hours

InCooloff(site, u, t) ==
    /\ site.cooloff_hours > 0
    /\ (t - u.date_joined) < site.cooloff_hours

HasConsent(cons, org, uid) == \E c \in cons : c.org = org /\ c.user = uid

\* The consent check asked of every organisation.
NeedsConsent_EveryOrg(site, uid, cons) == ~HasConsent(cons, site.org, uid)

\* The consent check with its negation lost.
NeedsConsent_Inverted(site, uid, cons) ==
    /\ require_consent[site.org]
    /\ HasConsent(cons, site.org, uid)

NeedsConsent(site, uid, cons) ==
    /\ require_consent[site.org]
    /\ ~HasConsent(cons, site.org, uid)

\* Requests between the checks and the response, and the room left under MaxEnc.
InFlight == Cardinality({r \in Reqs : req[r].pc # "idle"})
MayEncrypt == Len(ivlog) + InFlight < MaxEnc

\* A request is served by the first worker that is free.
FreeSlot == IF \E r \in Reqs : req[r].pc = "idle"
            THEN CHOOSE r \in Reqs : req[r].pc = "idle" /\ \A q \in Reqs : req[q].pc = "idle" => r <= q
            ELSE 0

\* ------------------------------------------------------------- the login view
\* The bodies a POST to the login form can carry, and the next values posted.
PostedNext == {<<"/account/">>, <<"/account/auth/", "1", "/">>}
POSTs ==
    { <<>>, [next |-> <<"/account/">>] }
        \cup {[next |-> n, this_is_the_login_form |-> <<"1">>] : n \in PostedNext}

\* authviews.LoginView, as communityauth calls it for an anonymous request:
\* a POST with valid credentials logs the user in and redirects to the posted
\* next (or the default); anything else renders the form with nexturl.
LoginView(b, siteid, method, GET, POST, credsok, nexturl) ==
    IF method = "POST" /\ credsok
    THEN /\ session' = [session EXCEPT ![b] = b]
         /\ users' = [users EXCEPT ![b].last_login = now]
         /\ resp' = Answering(Response("communityauth", "login_redirect", siteid, Anonymous,
                                       IF "next" \in DOMAIN POST THEN POST.next ELSE <<"/account/">>,
                                       <<>>, NoEnc), b, method, GET, POST)
    ELSE /\ resp' = Answering(Response("communityauth", "login_form", siteid, Anonymous, <<>>, nexturl, NoEnc),
                             b, method, GET, POST)
         /\ UNCHANGED <<session, users>>

\* The postback test without its this_is_the_login_form part.
LoginNext_NoMarker(siteid, urldata, method, POST) ==
    IF method = "POST" /\ "next" \in DOMAIN POST
    THEN POST.next
    ELSE ReturnPath(siteid, urldata)

\* The post-login target communityauth hands to the login form.
LoginNext(siteid, urldata, method, POST) ==
    IF method = "POST" /\ "next" \in DOMAIN POST /\ "this_is_the_login_form" \in DOMAIN POST
    THEN POST.next
    ELSE ReturnPath(siteid, urldata)

\* communityauth up to the login-count statement: the site lookup, the payload,
\* the login form for an anonymous request, and the three checks.
communityauth(r, b, siteid, GET) ==
    /\ resp.kind = "none"
    /\ r = FreeSlot
    /\ IF siteid \notin Sites
       THEN /\ resp' = Answering(Response("communityauth", "notfound", siteid, session[b], <<>>, <<>>, NoEnc),
                              b, "GET", GET, <<>>)
            /\ UNCHANGED <<users, session, req, handoffs>>
       ELSE LET site == CommunityAuthSite[siteid]
                urldata == UrlData(GET)
                user == users[session[b]]
            IN IF session[b] = Anonymous
               THEN /\ \E method \in {"GET", "POST"}, POST \in POSTs, credsok \in BOOLEAN :
                          /\ method = "GET" => (POST = <<>> /\ ~credsok)
                          /\ LoginView(b, siteid, method, GET, POST, credsok,
                                       LoginNext(siteid, urldata, method, POST))
                    /\ UNCHANGED <<req, handoffs>>
               ELSE IF ProfileIncomplete(user)
               THEN /\ resp' = Answering(Response("communityauth", "noinfo", siteid, session[b], <<>>, <<>>, NoEnc),
                                      b, "GET", GET, <<>>)
                    /\ UNCHANGED <<users, session, req, handoffs>>
               ELSE IF InCooloff(site, user, now)
               THEN /\ resp' = Answering(Response("communityauth", "cooloff", siteid, session[b], <<>>, <<>>, NoEnc),
                                      b, "GET", GET, <<>>)
                    /\ UNCHANGED <<users, session, req, handoffs>>
               ELSE IF NeedsConsent(site, session[b], consents)
               THEN /\ resp' = Answering(Response("communityauth", "consent_redirect", siteid, session[b],
                                                  ConsentUrl(siteid, urldata), <<>>, NoEnc),
                                      b, "GET", GET, <<>>)
                    /\ UNCHANGED <<users, session, req, handoffs>>
               ELSE /\ MayEncrypt
                    /\ req' = [req EXCEPT ![r] = [pc |-> "upsert", uid |-> session[b],
                                                  site |-> siteid, GET |-> GET, urldata |-> urldata]]
                    /\ handoffs' = [handoffs EXCEPT ![<<session[b], siteid>>] = @ + 1]
                    /\ UNCHANGED <<users, session, resp>>
    /\ UNCHANGED <<now, consents, lastlogin, rnd, ivlog, grants, sess, wire, secondaryemail>>

\* ------------------------------------------------- communityauth, the counter
\* INSERT ... VALUES (user, site, CURRENT_TIMESTAMP, 1) ON CONFLICT (user_id,
\* site_id) DO UPDATE SET lastlogin=CURRENT_TIMESTAMP, logincount=logincount+1
\* The statement as a plain overwrite: ON CONFLICT ... SET logincount=1.
Upsert_Overwrite(rows, uid, siteid, t) ==
    [rows EXCEPT ![<<uid, siteid>>] = [lastlogin |-> t, logincount |-> 1]]

Upsert(rows, uid, siteid, t) ==
    [rows EXCEPT ![<<uid, siteid>>] =
        IF @ = NoRow THEN [lastlogin |-> t, logincount |-> 1]
        ELSE [lastlogin |-> t, logincount |-> @.logincount + 1]]

\* ------------------------------------------------- communityauth, the record
\* The order of str values: by code point, as far as the model's strings go.
CodeOrder == <<"+", ",", "-", "/", "0", "1", "2", "3", "=", "@", "A", "B", "a", "b", "c", "d", "e", "k", "u", "x">>
Ord(c) == CHOOSE i \in 1..Len(CodeOrder) : CodeOrder[i] = c

RECURSIVE StrLess(_, _)
StrLess(a, b) ==
    IF b = <<>> THEN FALSE
    ELSE IF a = <<>> THEN TRUE
    ELSE IF Head(a) = Head(b) THEN StrLess(Tail(a), Tail(b))
    ELSE Ord(Head(a)) < Ord(Head(b))

\* order_by('email') of a set of addresses
RECURSIVE OrderBy(_)
OrderBy(S) ==
    IF S = {} THEN <<>>
    ELSE LET m == CHOOSE x \in S : \A y \in S \ {x} : StrLess(x, y)
         IN <<m>> \o OrderBy(S \ {m})

\* sep.join(list)
RECURSIVE Join(_, _)
Join(sep, list) ==
    IF list = <<>> THEN <<>>
    ELSE IF Len(list) = 1 THEN list[1]
    ELSE list[1] \o sep \o Join(sep, Tail(list))

\* The filter without confirmed=True.
ConfirmedSecondary_All(uid) == {a.email : a \in {x \in secondaryemail.rows : x.user = uid}}

ConfirmedSecondary(uid) ==
    {a.email : a \in {x \in secondaryemail.rows : x.user = uid /\ x.confirmed}}

\* str(n) for the small naturals of the model
Digits(n) == <<ToString(n)>>

\* "t=%s&%s" % (int(time.time()), urlencode(info))
HandoffRecord(t, user, uid, d, su) ==
    LET field(k, v) == <<"&">> \o k \o <<"=">> \o quote_plus(v, {})
        payload == IF d # <<>> THEN field(<<"d">>, d)
                   ELSE IF su # <<>> THEN field(<<"s", "u">>, su)
                   ELSE <<>>
    IN <<"t", "=">> \o Digits(t)
         \o field(<<"u">>, user.username)
         \o field(<<"f">>, user.first_name)
         \o field(<<"l">>, user.last_name)
         \o field(<<"e">>, user.email)
         \o field(<<"s", "e">>, Join(<<",">>, OrderBy(ConfirmedSecondary(uid))))
         \o payload

\* ------------------------------------------------------------------ encryption
IVLen == 16
BlockSize == 16

\* A generator seeded anew for every read: the same bytes each time.
RandomRead_Reseeded(n) == 1

\* r.read(16): the next 16 bytes of the random source, named by their position.
RandomRead(n) == n + 1

\* The padding that leaves a full block alone.
Pad_ToNext(str) == str \o [i \in 1..((BlockSize - (Len(str) % BlockSize)) % BlockSize) |-> " "]

\* s + b' ' * (16 - (len(s) % 16))
Pad(str) == str \o [i \in 1..(BlockSize - (Len(str) % BlockSize)) |-> " "]

\* AES.new(key, AES.MODE_CBC, iv).encrypt(padded)
AESEncrypt(key, iv, str) == [key |-> key, iv |-> iv, ivlen |-> IVLen, plain |-> Pad(str)]

\* communityauth from the login-count statement on: the upsert, the record,
\* its encryption under the site's key with a new IV, and the redirect to the
\* partner.  The statements after the upsert read only rows that no request
\* of the model writes, so they are taken in one step with it.
communityauth_finish(r) ==
    /\ resp.kind = "none"
    /\ req[r].pc = "upsert"
    /\ lastlogin' = Upsert(lastlogin, req[r].uid, req[r].site, now)
    /\ LET site == CommunityAuthSite[req[r].site]
           s == HandoffRecord(now, users[req[r].uid], req[r].uid,
                              DataParam(req[r].GET), LegacySuburl(req[r].GET))
           iv == RandomRead(rnd)
       IN /\ rnd' = rnd + 1
          /\ ivlog' = Append(ivlog, iv)
          /\ resp' = Response("communityauth", "partner_redirect", req[r].site, req[r].uid,
                              <<site.redirecturl, "?i=", "&d=">>, <<>>, AESEncrypt(site.cryptkey, iv, s))
    /\ req' = [req EXCEPT ![r] = IdleReq]
    /\ UNCHANGED <<now, users, session, consents, handoffs, grants, sess, wire, secondaryemail>>

\* ------------------------------------------------------- communityauth_logout
\* The logout that redirects without django_logout.
communityauth_logout_Redirect(b, siteid) ==
    /\ resp.kind = "none"
    /\ resp' = Answering(Response("communityauth_logout", IF siteid \in Sites THEN "logout_redirect" ELSE "notfound",
                                  siteid, session[b],
                                  IF siteid \in Sites THEN <<CommunityAuthSite[siteid].redirecturl, "?s=logout">> ELSE <<>>,
                                  <<>>, NoEnc),
                         b, "GET", <<>>, <<>>)
    /\ UNCHANGED <<now, users, session, consents, lastlogin, req, rnd, ivlog, handoffs, grants, sess, wire, secondaryemail>>

\* The logout that ends the session before it looks the site up.
communityauth_logout_First(b, siteid) ==
    /\ resp.kind = "none"
    /\ session' = [session EXCEPT ![b] = Anonymous]
    /\ sess' = IF session[b] # Anonymous THEN [sess EXCEPT ![b] = EmptySession] ELSE sess
    /\ resp' = Answering(Response("communityauth_logout", IF siteid \in Sites THEN "logout_redirect" ELSE "notfound",
                                  siteid, session[b],
                                  IF siteid \in Sites THEN <<CommunityAuthSite[siteid].redirecturl, "?s=logout">> ELSE <<>>,
                                  <<>>, NoEnc),
                         b, "GET", <<>>, <<>>)
    /\ UNCHANGED <<now, users, consents, lastlogin, req, rnd, ivlog, handoffs, grants, wire, secondaryemail>>

communityauth_logout(b, siteid) ==
    /\ resp.kind = "none"
    /\ IF siteid \notin Sites
       THEN /\ resp' = Answering(Response("communityauth_logout", "notfound", siteid, session[b], <<>>, <<>>, NoEnc),
                              b, "GET", <<>>, <<>>)
            /\ UNCHANGED <<session, sess>>
       ELSE /\ session' = [session EXCEPT ![b] = Anonymous]
            /\ sess' = IF session[b] # Anonymous THEN [sess EXCEPT ![b] = EmptySession] ELSE sess
            /\ resp' = Answering(Response("communityauth_logout", "logout_redirect", siteid, session[b],
                                          <<CommunityAuthSite[siteid].redirecturl, "?s=logout">>, <<>>, NoEnc),
                              b, "GET", <<>>, <<>>)
    /\ UNCHANGED <<now, users, consents, lastlogin, req, rnd, ivlog, handoffs, grants, wire, secondaryemail>>

\* ------------------------------------------------------ communityauth_consent
\* CommunityAuthConsent.objects.get_or_create(user=, org=, defaults={'consentgiven': now})
\* create() in its place: a row per submission.
get_or_create_Create(cons, uid, org, t) ==
    cons \cup {[user |-> uid, org |-> org, consentgiven |-> t]}

\* update_or_create() in its place: the row is rewritten with the new time.
get_or_create_Update(cons, uid, org, t) ==
    {c \in cons : ~(c.user = uid /\ c.org = org)} \cup {[user |-> uid, org |-> org, consentgiven |-> t]}

get_or_create(cons, uid, org, t) ==
    IF HasConsent(cons, org, uid) THEN cons
    ELSE cons \cup {[user |-> uid, org |-> org, consentgiven |-> t]}

communityauth_consent(b, siteid, method, valid, next) ==
    /\ resp.kind = "none"
    /\ method = "GET" => ~valid
    /\ LET GET == IF method = "GET" THEN [next |-> next] ELSE <<>>
           POST == IF method = "POST" THEN [next |-> next] ELSE <<>>
           answer(kind, location, field) ==
               Answering(Response("communityauth_consent", kind, siteid, session[b], location, field, NoEnc),
                         b, method, GET, POST)
       IN IF session[b] = Anonymous
          THEN \* @login_required
               /\ resp' = answer("login_required", <<>>, <<>>)
               /\ UNCHANGED <<consents, grants>>
          ELSE IF siteid \notin Sites
          THEN /\ resp' = answer("notfound", <<>>, <<>>)
               /\ UNCHANGED <<consents, grants>>
          ELSE LET org == CommunityAuthSite[siteid].org
               IN IF method = "POST" /\ valid
                  THEN /\ consents' = get_or_create(consents, session[b], org, now)
                       /\ grants' = [grants EXCEPT ![<<session[b], org>>] = IF @ = NoGrant THEN now ELSE @]
                       /\ resp' = answer("consent_next", next, <<>>)
                  ELSE /\ resp' = answer("consent_form", <<>>, IF method = "POST" THEN <<>> ELSE next)
                       /\ UNCHANGED <<consents, grants>>
    /\ UNCHANGED <<now, users, session, lastlogin, req, rnd, ivlog, handoffs, sess, wire, secondaryemail>>

\* ----------------------------------------------------- _encrypt_site_response
\* The IV and the ciphertext of s under the site's key, returned "iv&cipher".
\* One key for every site.
encrypt_site_response_OneKey(site, s, iv) == AESEncrypt(CommunityAuthSite[1].cryptkey, iv, s)

encrypt_site_response(site, s, iv) == AESEncrypt(site.cryptkey, iv, s)

\* json.dumps of strings, lists and dicts
JsonStr(str) == <<"\"">> \o str \o <<"\"">>
JsonList(items) == <<"[">> \o Join(<<",", " ">>, items) \o <<"]">>
JsonPair(k, v) == JsonStr(k) \o <<":", " ">> \o v
JsonDict(pairs) == <<"{">> \o Join(<<",", " ">>, pairs) \o <<"}">>

\* The orders in which a query without ORDER BY can return the rows S.
Orderings(S) ==
    {o \in [1..Cardinality(S) -> S] : \A i, j \in 1..Cardinality(S) : o[i] = o[j] => i = j}

\* ------------------------------------------------------- communityauth_search
Lower(c) == CASE c = "A" -> "a" [] c = "B" -> "b" [] OTHER -> c
LowerStr(str) == [i \in 1..Len(str) |-> Lower(str[i])]

\* field__icontains=term
icontains(field, term) ==
    \E i \in 0..(Len(field) - Len(term)) :
        LowerStr(SubSeq(field, i + 1, i + Len(term))) = LowerStr(term)

Given(GET, k) == k \in DOMAIN GET /\ GET[k] # <<>>

\* The Q object of the search; NoTerm stands for the Http404 branch.
NoTerm(GET) == ~Given(GET, "s") /\ ~Given(GET, "e") /\ ~Given(GET, "n") /\ ~Given(GET, "u")

\* The search without Q(is_active=True).
SearchMatches_Inactive(u, GET) ==
    IF Given(GET, "s")
    THEN icontains(u.email, GET.s) \/ icontains(u.first_name, GET.s) \/ icontains(u.last_name, GET.s)
    ELSE IF Given(GET, "e") THEN icontains(u.email, GET.e)
    ELSE IF Given(GET, "n") THEN icontains(u.first_name, GET.n) \/ icontains(u.last_name, GET.n)
    ELSE IF Given(GET, "u") THEN u.username = GET.u
    ELSE FALSE

SearchMatches(u, GET) ==
    /\ u.is_active
    /\ IF Given(GET, "s")
       THEN icontains(u.email, GET.s) \/ icontains(u.first_name, GET.s) \/ icontains(u.last_name, GET.s)
       ELSE IF Given(GET, "e") THEN icontains(u.email, GET.e)
       ELSE IF Given(GET, "n") THEN icontains(u.first_name, GET.n) \/ icontains(u.last_name, GET.n)
       ELSE IF Given(GET, "u") THEN u.username = GET.u
       ELSE FALSE

SearchJson(userorder, seorder) ==
    JsonList([i \in 1..Len(userorder) |->
        LET uid == userorder[i]
            u == users[uid]
        IN JsonDict(<< JsonPair(<<"u">>, JsonStr(u.username)),
                       JsonPair(<<"e">>, JsonStr(u.email)),
                       JsonPair(<<"f">>, JsonStr(u.first_name)),
                       JsonPair(<<"l">>, JsonStr(u.last_name)),
                       JsonPair(<<"s", "e">>,
                                JsonList([k \in 1..Len(seorder[uid]) |-> JsonStr(seorder[uid][k])])) >>)])

SearchGETs ==
    { <<>>, [s |-> <<"a">>, e |-> <<"b", "@">>], [s |-> <<>>, e |-> <<"b", "@">>], [n |-> <<"b">>],
      [u |-> <<"u", "1">>], [u |-> <<>>] }

communityauth_search(siteid, GET) ==
    /\ resp.kind = "none"
    /\ IF siteid \notin Sites \/ NoTerm(GET)
       THEN /\ resp' = Answering(Response("communityauth_search", "notfound", siteid, Anonymous, <<>>, <<>>, NoEnc),
                              0, "GET", GET, <<>>)
            /\ UNCHANGED <<rnd, ivlog>>
       ELSE /\ MayEncrypt
            /\ \E userorder \in Orderings({u \in Users : SearchMatches(users[u], GET)}) :
               \E seorder \in {f \in [Users -> UNION {Orderings(ConfirmedSecondary(u)) : u \in Users}] :
                                 \A u \in Users : f[u] \in Orderings(ConfirmedSecondary(u))} :
                  LET iv == RandomRead(rnd)
                  IN /\ rnd' = rnd + 1
                     /\ ivlog' = Append(ivlog, iv)
                     /\ resp' = Answering(Response("communityauth_search", "encrypted", siteid, Anonymous,
                                                   <<>>, <<>>,
                                                   encrypt_site_response(CommunityAuthSite[siteid],
                                                                         SearchJson(userorder, seorder), iv)),
                                          0, "GET", GET, <<>>)
    /\ UNCHANGED <<now, users, session, consents, lastlogin, req, handoffs, grants, sess, wire, secondaryemail>>

\* ------------------------------------------------------ communityauth_getkeys
\* k.sshkey.replace("\r", "\n")
ReplaceCR(str) == [i \in 1..Len(str) |-> IF str[i] = "\r" THEN "\n" ELSE str[i]]

\* int(since.replace('/', '')), -1 standing for the ValueError
SinceValue(since) ==
    LET digits == SelectSeq(since, LAMBDA c : c # "/")
    IN IF Len(digits) = 1 /\ digits[1] \in {"0", "1", "2", "3"}
       THEN CHOOSE n \in 0..3 : ToString(n) = digits[1]
       ELSE -1

KeysJson(keyorder) ==
    JsonList([i \in 1..Len(keyorder) |->
        JsonDict(<< JsonPair(<<"u">>, JsonStr(users[keyorder[i]].username)),
                    JsonPair(<<"s">>, JsonStr(ReplaceCR(UserProfile[keyorder[i]].sshkey))) >>)])

communityauth_getkeys(siteid, since) ==
    /\ resp.kind = "none"
    /\ IF siteid \notin Sites
       THEN /\ resp' = Response("communityauth_getkeys", "notfound", siteid, Anonymous, <<>>, <<>>, NoEnc)
            /\ UNCHANGED <<rnd, ivlog>>
       ELSE IF since # <<>> /\ SinceValue(since) < 0
       THEN /\ resp' = Response("communityauth_getkeys", "server_error", siteid, Anonymous, <<>>, <<>>, NoEnc)
            /\ UNCHANGED <<rnd, ivlog>>
       ELSE /\ MayEncrypt
            /\ \E keyorder \in Orderings({u \in Users :
                                  /\ UserProfile[u].sshkey # <<>>
                                  /\ since # <<>> => UserProfile[u].lastmodified >= SinceValue(since)}) :
                  LET iv == RandomRead(rnd)
                  IN /\ rnd' = rnd + 1
                     /\ ivlog' = Append(ivlog, iv)
                     /\ resp' = Response("communityauth_getkeys", "encrypted", siteid, Anonymous, <<>>, <<>>,
                                         encrypt_site_response(CommunityAuthSite[siteid], KeysJson(keyorder), iv))
    /\ UNCHANGED <<now, users, session, consents, lastlogin, req, handoffs, grants, sess, wire, secondaryemail>>

\* ------------------------------------------------------------- the environment
\* The response leaves the server.
Deliver ==
    /\ resp.kind # "none"
    /\ resp' = NoResponse
    /\ UNCHANGED <<now, users, session, consents, lastlogin, req, rnd, ivlog, handoffs, grants, sess, wire, secondaryemail>>

\* The clock advances.
Tick ==
    /\ resp.kind = "none"
    /\ now < MaxTime
    /\ now' = now + 1
    /\ UNCHANGED <<users, session, consents, lastlogin, req, rnd, ivlog, resp, handoffs, grants, sess, wire, secondaryemail>>

\* The query strings a request can carry: no payload, a well-formed d beside
\* a legacy su, a malformed d beside a legacy su, and an empty d beside an su
\* that is no path.
GETs ==
    { <<>>, [d |-> <<"a", "=">>, su |-> <<"/", "x">>],
      [d |-> <<"a", "+">>, su |-> <<"/", "x">>], [d |-> <<>>, su |-> <<"x">>],
      [su |-> <<"/", "a", "+", "b">>] }

\* The consent step is entered from communityauth's redirect, which is issued
\* for the sites of organisations that require consent.
ConsentSiteIds == {s \in Sites : require_consent[CommunityAuthSite[s].org]} \cup {UnknownSite}

Next ==
    \/ Tick
    \/ \E r \in Reqs, b \in Browsers, siteid \in SiteIds, GET \in GETs :
            communityauth(r, b, siteid, GET)
    \/ \E r \in Reqs : communityauth_finish(r)
    \/ \E b \in Browsers, siteid \in SiteIds : communityauth_logout(b, siteid)
    \/ \E b \in Browsers, siteid \in ConsentSiteIds, method \in {"GET", "POST"}, valid \in BOOLEAN, next \in PostedNext :
            communityauth_consent(b, siteid, method, valid, next)
    \/ \E siteid \in SiteIds, GET \in SearchGETs : communityauth_search(siteid, GET)
    \/ \E siteid \in SiteIds, since \in {<<>>, <<"1">>, <<"2", "/">>, <<"/">>} : communityauth_getkeys(siteid, since)
    \/ Deliver

Spec == Init /\ [][Next]_vars

\* ------------------------------------------------- encryption, byte by byte
\* The two encryptions again, with the IV and the ciphertext as bytes and the
\* text that is sent as characters.
MaxPlain == 33

\* The base64 alphabet.
B64Alphabet ==
    <<"A", "B", "C", "D", "E", "F", "G", "H", "I", "J", "K", "L", "M", "N", "O", "P",
      "Q", "R", "S", "T", "U", "V", "W", "X", "Y", "Z", "a", "b", "c", "d", "e", "f",
      "g", "h", "i", "j", "k", "l", "m", "n", "o", "p", "q", "r", "s", "t", "u", "v",
      "w", "x", "y", "z", "0", "1", "2", "3", "4", "5", "6", "7", "8", "9", "+", "/">>

\* binascii.b2a_base64(bytes, newline=False): three bytes to four characters,
\* the last group filled up with '='.
RECURSIVE b2a_base64(_)
b2a_base64(bytes) ==
    LET ch(n) == B64Alphabet[n + 1]
    IN IF bytes = <<>> THEN <<>>
       ELSE IF Len(bytes) = 1
       THEN <<ch(bytes[1] \div 4), ch((bytes[1] % 4) * 16), "=", "=">>
       ELSE IF Len(bytes) = 2
       THEN <<ch(bytes[1] \div 4), ch((bytes[1] % 4) * 16 + bytes[2] \div 16),
              ch((bytes[2] % 16) * 4), "=">>
       ELSE <<ch(bytes[1] \div 4), ch((bytes[1] % 4) * 16 + bytes[2] \div 16),
              ch((bytes[2] % 16) * 4 + bytes[3] \div 64), ch(bytes[3] % 64)>>
                \o b2a_base64(SubSeq(bytes, 4, Len(bytes)))

\* base64.b64encode(bytes, altchars): the encoding with '+' and '/' translated.
b64encode(bytes, altchars) ==
    LET enc == b2a_base64(bytes)
    IN [k \in 1..Len(enc) |-> IF enc[k] = "+" THEN altchars[1]
                              ELSE IF enc[k] = "/" THEN altchars[2] ELSE enc[k]]

\* Bytes as the random source and the cipher may produce them: a few patterns,
\* repeated to the length asked for.
BytePatterns == { <<0>>, <<255>>, <<251, 239, 190>>, <<105, 183, 29>> }
Bytes(pattern, n) == [k \in 1..n |-> pattern[((k - 1) % Len(pattern)) + 1]]

\* The plaintexts: n characters.
Plaintext(n) == [k \in 1..n |-> "x"]

\* communityauth, lines 538-548: the IV, the padded plaintext encrypted, and
\* the Location of the redirect.
EncryptRedirect(siteid, s, ivpattern, cipherpattern) ==
    LET site == CommunityAuthSite[siteid]
        iv == Bytes(ivpattern, IVLen)
        padded == Pad(s)
        cipher == Bytes(cipherpattern, Len(padded))
        i == b64encode(iv, <<"-", "_">>)
        d == b64encode(cipher, <<"-", "_">>)
    IN /\ wire = NoWire
       /\ wire' = [by |-> "communityauth", site |-> siteid, plain |-> s, padded |-> padded,
                   iv |-> iv, cipher |-> cipher, i |-> i, d |-> d,
                   text |-> <<site.redirecturl, "?", "i", "=">> \o i \o <<"&", "d", "=">> \o d]
       /\ UNCHANGED <<now, users, session, consents, lastlogin, req, rnd, ivlog, resp, handoffs, grants, sess, secondaryemail>>

\* _encrypt_site_response: the same, returning "%s&%s".
EncryptResponse(siteid, s, ivpattern, cipherpattern) ==
    LET iv == Bytes(ivpattern, IVLen)
        padded == Pad(s)
        cipher == Bytes(cipherpattern, Len(padded))
        i == b64encode(iv, <<"-", "_">>)
        d == b64encode(cipher, <<"-", "_">>)
    IN /\ wire = NoWire
       /\ wire' = [by |-> "_encrypt_site_response", site |-> siteid, plain |-> s, padded |-> padded,
                   iv |-> iv, cipher |-> cipher, i |-> i, d |-> d,
                   text |-> i \o <<"&">> \o d]
       /\ UNCHANGED <<now, users, session, consents, lastlogin, req, rnd, ivlog, resp, handoffs, grants, sess, secondaryemail>>

\* The text leaves for the partner.
Transmit ==
    /\ wire # NoWire
    /\ wire' = NoWire
    /\ UNCHANGED <<now, users, session, consents, lastlogin, req, rnd, ivlog, resp, handoffs, grants, sess, secondaryemail>>

CipherNext ==
    \/ \E siteid \in Sites, n \in 0..MaxPlain, ivpattern \in BytePatterns, cipherpattern \in BytePatterns :
            EncryptRedirect(siteid, Plaintext(n), ivpattern, cipherpattern)
    \/ \E siteid \in Sites, n \in 0..MaxPlain, ivpattern \in BytePatterns, cipherpattern \in BytePatterns :
            EncryptResponse(siteid, Plaintext(n), ivpattern, cipherpattern)
    \/ Transmit

CipherSpec == Init /\ [][CipherNext]_vars

\* ================================================================== properties
\* What a handoff requires, stated on the rows themselves.
Complete(uid) ==
    /\ users[uid].first_name # <<>>
    /\ users[uid].last_name # <<>>
    /\ users[uid].email # <<>>

CooloffElapsed(uid, sid) ==
    now - users[uid].date_joined >= CommunityAuthSite[sid].cooloff_hours

ConsentOnRecord(uid, sid) ==
    \E c \in consents : c.user = uid /\ c.org = CommunityAuthSite[sid].org

ConsentSettled(uid, sid) ==
    require_consent[CommunityAuthSite[sid].org] => ConsentOnRecord(uid, sid)

PartnerUrls == {CommunityAuthSite[s].redirecturl : s \in Sites}

\* A step in which communityauth answers a new request at once.
AnswersAtOnce == resp.kind = "none" /\ resp'.ep = "communityauth" /\ resp'.kind # "partner_redirect"

\* A step in which request r passes the checks of communityauth.
PassesChecks(r) == req[r].pc = "idle" /\ req'[r].pc = "upsert"

\* ----------------------------------------------------------------- signup_oauth
MaxSignups == 2

\* What the OAuth login may have left in request.session: any of the three
\* oauth values and of login_next.
OAuthKeys == {"oauth_email", "oauth_firstname", "oauth_lastname"}
OAuthValues ==
    [oauth_email |-> {<<"B", "@">>}, oauth_firstname |-> {<<"A">>, <<>>},
     oauth_lastname |-> {<<"B">>}, login_next |-> {<<"/account/auth/", "1", "/">>}]
OAuthSessions ==
    UNION {{f \in [K -> UNION {OAuthValues[k] : k \in K}] : \A k \in K : f[k] \in OAuthValues[k]} :
              K \in SUBSET (OAuthKeys \cup {"login_next"})}

\* The test of the first three lines, with the first name and last name left out.
OAuthPresent_EmailOnly(s) == "oauth_email" \in DOMAIN s

\* 'oauth_email' in request.session and ... (the three of them)
OAuthPresent(s) == OAuthKeys \subseteq DOMAIN s

\* A del that leaves the session as it was.
Without_Nothing(s, keys) == s

\* del request.session[k] for the keys given, and session.pop
Without(s, keys) == [k \in DOMAIN s \ keys |-> s[k]]
Pop(s, key, default) == IF key \in DOMAIN s THEN s[key] ELSE default

\* str.replace('@', '.')
ReplaceAt(str) == [i \in 1..Len(str) |-> IF str[i] = "@" THEN "." ELSE str[i]]

Usernames == {users[u].username : u \in DOMAIN users}

\* The username the form suggests: the first free one of first name + initial
\* of the last name, initial + last name, and the former with 0..99 appended;
\* the email with '.' for '@' without a first or last name or a free one.
SuggestedUsername(s) ==
    LET f == LowerStr(s.oauth_firstname)
        l == LowerStr(s.oauth_lastname)
        cand == << f \o <<l[1]>>, <<f[1]>> \o l >> \o [n \in 1..100 |-> f \o <<l[1], ToString(n - 1)>>]
        free == {i \in 1..Len(cand) : cand[i] \notin Usernames}
    IN IF f # <<>> /\ l # <<>> /\ free # {}
       THEN cand[CHOOSE i \in free : \A j \in free : i <= j]
       ELSE ReplaceAt(s.oauth_email)

\* User.objects.create_user(username, email, last_login=now) and the names
create_user(username, email, first, last, t) ==
    [first_name |-> first, last_name |-> last, email |-> email, username |-> username,
     date_joined |-> t, last_login |-> t, is_active |-> TRUE, password |-> OAUTH_PASSWORD_STORE]

\* django_login: the session data survives unless another user was logged in.
django_login(s, was, uid) == IF was # Anonymous /\ was # uid THEN EmptySession ELSE s

signup_oauth(b, method, username, valid, do_abort) ==
    /\ resp.kind = "none"
    /\ method = "GET" => (~valid /\ username = <<>>)
    /\ method = "POST" => ~do_abort
    /\ LET GET == IF do_abort THEN [do_abort |-> <<"1">>] ELSE <<>>
           POST == IF method = "POST" THEN [username |-> username] ELSE <<>>
           answer(kind, location, field) ==
               Answering(Response("signup_oauth", kind, UnknownSite, session[b], location, field, NoEnc),
                         b, method, GET, POST)
           s == sess[b]
           new == Cardinality(DOMAIN users) + 1
       IN IF ~OAuthPresent(s)
          THEN /\ resp' = answer("oauth_error", <<"Invalid redirect received">>, <<>>)
               /\ UNCHANGED <<users, session, sess>>
          ELSE IF ~(OAuthKeys \subseteq DOMAIN s)
          THEN \* request.session[k] raises KeyError for a key that is not there
               /\ resp' = answer("server_error", <<>>, <<>>)
               /\ UNCHANGED <<users, session, sess>>
          ELSE IF method = "POST" /\ valid /\ LowerStr(username) \in Usernames
          THEN \* create_user raises IntegrityError, and the transaction is rolled back
               /\ resp' = answer("server_error", <<>>, <<>>)
               /\ UNCHANGED <<users, session, sess>>
          ELSE IF method = "POST" /\ valid
          THEN /\ new <= Cardinality(Users) + MaxSignups
               /\ users' = [u \in DOMAIN users \cup {new} |->
                               IF u = new
                               THEN create_user(LowerStr(username), LowerStr(s.oauth_email),
                                                s.oauth_firstname, s.oauth_lastname, now)
                               ELSE users[u]]
               /\ session' = [session EXCEPT ![b] = new]
               /\ LET kept == django_login(Without(s, OAuthKeys), session[b], new)
                  IN /\ sess' = [sess EXCEPT ![b] = Without(kept, {"login_next"})]
                     /\ resp' = answer("signup_redirect", Pop(kept, "login_next", <<"/account/">>), <<>>)
          ELSE IF method # "POST" /\ do_abort
          THEN /\ sess' = [sess EXCEPT ![b] = Without(s, OAuthKeys \cup {"login_next"})]
               /\ resp' = answer("abort_redirect", Pop(s, "login_next", <<"/">>), <<>>)
               /\ UNCHANGED <<users, session>>
          ELSE /\ resp' = answer("signup_form", <<>>,
                                 IF method = "POST" THEN username ELSE SuggestedUsername(s))
               /\ UNCHANGED <<users, session, sess>>
    /\ UNCHANGED <<now, consents, lastlogin, req, rnd, ivlog, handoffs, grants, wire, secondaryemail>>

\* A browser comes back from the OAuth provider, logged in or not, with what
\* the OAuth login stored in its session.
SignupInit ==
    /\ now = StartTime
    /\ \E p \in UserOneProfiles : users = [u \in Users |-> IF u = 1 THEN p ELSE IF u = 2 THEN UserTwo ELSE UserThree]
    /\ session \in [Browsers -> {Anonymous, 1}]
    /\ sess \in [Browsers -> OAuthSessions]
    /\ consents = {}
    /\ lastlogin = [k \in Users \X Sites |-> NoRow]
    /\ req = [r \in Reqs |-> IdleReq]
    /\ rnd = 0
    /\ ivlog = <<>>
    /\ resp = NoResponse
    /\ handoffs = [k \in Users \X Sites |-> 0]
    /\ grants = [k \in Users \X Orgs |-> NoGrant]
    /\ wire = NoWire
    /\ secondaryemail = [rows |-> SecondaryEmail, nextid |-> Cardinality(SecondaryEmail) + 1]

SignupUsernames == {<<"A", "b">>, <<"u", "1">>, <<"c">>}

SignupNext ==
    \/ \E b \in Browsers, method \in {"GET", "POST"}, username \in SignupUsernames \cup {<<>>},
           valid \in BOOLEAN, do_abort \in BOOLEAN :
            signup_oauth(b, method, username, valid, do_abort)
    \/ Deliver

SignupSpec == SignupInit /\ [][SignupNext]_vars

\* ---------------------------------------------------------------------- docpage
\* A version or a file name is a sequence of tokens: a run of digits, a word,
\* "release-", or one of the characters '.' and '-'.
NumTokens == {ToString(k) : k \in 0..22}
TokenValue(t) == CHOOSE k \in 0..22 : ToString(k) = t
SingleChars == {".", "-"} \cup {ToString(k) : k \in 0..9}

\* Decimal(str): the value in hundredths, the integer part, and the text it
\* prints as; ok is FALSE where Decimal raises.
NotDecimal == [ok |-> FALSE, val |-> 0, int |-> 0, str |-> <<>>]
Decimal(str) ==
    IF Len(str) = 1 /\ str[1] \in NumTokens
    THEN [ok |-> TRUE, val |-> 100 * TokenValue(str[1]), int |-> TokenValue(str[1]), str |-> str]
    ELSE IF Len(str) = 3 /\ str[1] \in NumTokens /\ str[2] = "." /\ str[3] \in NumTokens
    THEN [ok |-> TRUE,
          val |-> 100 * TokenValue(str[1]) + (IF TokenValue(str[3]) < 10 THEN 10 * TokenValue(str[3]) ELSE TokenValue(str[3])),
          int |-> TokenValue(str[1]), str |-> str]
    ELSE NotDecimal

\* release_version.quantize(Decimal('1'), rounding=ROUND_DOWN)
quantize(dec) == [ok |-> TRUE, val |-> 100 * dec.int, int |-> dec.int, str |-> <<ToString(dec.int)>>]

\* The Version rows (tree, current), DocPage rows (version, file) and
\* DocPageRedirect rows of the documentation that is loaded: 0 is devel.
VersionRows ==
    { [tree |-> 0, current |-> FALSE], [tree |-> 930, current |-> FALSE], [tree |-> 940, current |-> FALSE],
      [tree |-> 960, current |-> FALSE], [tree |-> 1000, current |-> FALSE], [tree |-> 1100, current |-> TRUE] }
CurrentTree == (CHOOSE v \in VersionRows : v.current).tree
DocPageRows ==
    { [version |-> 1100, file |-> <<"index", ".", "html">>],
      [version |-> 1100, file |-> <<"release-", "11", "-", "2", ".", "html">>],
      [version |-> 1000, file |-> <<"release-", "10", ".", "html">>],
      [version |-> 930, file |-> <<"release-", "9", "-", "3", "-", "2", ".", "html">>],
      [version |-> 930, file |-> <<"release-", "9", "-", "3", ".", "html">>],
      [version |-> 0, file |-> <<"release-", "12", ".", "html">>],
      [version |-> 960, file |-> <<"release-", "9", "-", "6", ".", "html">>],
      [version |-> 1100, file |-> <<"release-", "prior", ".", "html">>] }
DocPageRedirectRows ==
    { [redirect_from |-> <<"release", ".", "html">>, redirect_to |-> <<"release-", "prior", ".", "html">>],
      [redirect_from |-> <<"notes", ".", "html">>, redirect_to |-> <<"release-", "9", "-", "6", ".", "html">>] }

\* The length of the match of release-((\d+)(-\d+)?)(-\d+)?.html at the head
\* of str, with as many of the optional parts as lets it match; 0 for none.
ReleaseMatch(str) ==
    LET fits(k) == /\ Len(str) >= 4 + 2 * k
                   /\ str[1] = "release-" /\ str[2] \in NumTokens
                   /\ \A j \in 1..k : str[1 + 2 * j] = "-" /\ str[2 + 2 * j] \in NumTokens
                   /\ str[3 + 2 * k] \in SingleChars /\ str[4 + 2 * k] = "html"
    IN IF fits(2) THEN 8 ELSE IF fits(1) THEN 6 ELSE IF fits(0) THEN 4 ELSE 0

\* re.sub(r'release-((\d+)(-\d+)?)(-\d+)?.html', r'\1', str)
RECURSIVE re_sub(_)
re_sub(str) ==
    IF str = <<>> THEN <<>>
    ELSE LET n == ReleaseMatch(str)
         IN IF n = 0 THEN <<Head(str)>> \o re_sub(Tail(str))
            ELSE SubSeq(str, 2, IF n = 4 THEN 2 ELSE 4) \o re_sub(SubSeq(str, n + 1, Len(str)))

\* str.replace('-', '.')
ReplaceDash(str) ==
    [k \in 1..Len(str) |-> IF str[k] = "-" THEN "." ELSE IF str[k] = "release-" THEN "release." ELSE str[k]]

\* The redirect of a release-notes page with no floor at 7.2.
ReleaseUrl_NoFloor(release_version, fullname) ==
    IF release_version.val >= 1000
    THEN <<"/docs/", ToString(release_version.int), "/">> \o fullname
    ELSE <<"/docs/">> \o release_version.str \o <<"/">> \o fullname

\* The redirect of a release-notes page that writes 10 and later as 10.0.
ReleaseUrl_WithDecimal(release_version, fullname) ==
    IF release_version.val >= 1000
    THEN <<"/docs/", ToString(release_version.int), ".", "0", "/">> \o fullname
    ELSE IF release_version.val < 720
    THEN <<"/docs/", "7", ".", "2", "/">> \o fullname
    ELSE <<"/docs/">> \o release_version.str \o <<"/">> \o fullname

\* The url of lines 97-103.
ReleaseUrl(release_version, fullname) ==
    IF release_version.val >= 1000
    THEN <<"/docs/", ToString(release_version.int), "/">> \o fullname
    ELSE IF release_version.val < 720
    THEN <<"/docs/", "7", ".", "2", "/">> \o fullname
    ELSE <<"/docs/">> \o release_version.str \o <<"/">> \o fullname

\* A response of docpage to the request for (version, filename); trail is
\* the requests whose redirects the browser followed to come to this one.
DocResponse(kind, location, version, filename, trail) ==
    [Response("docpage", kind, UnknownSite, Anonymous, location, <<>>, NoEnc) EXCEPT
        !.rq = [b |-> 0, method |-> "GET", GET |-> <<>>, POST |-> <<>>,
                version |-> version, filename |-> filename, trail |-> trail]]

\* The canonical version of a page: current if the file is in the current
\* docs, else the newest numbered version that has it.
CanonicalVersion(fullname) ==
    LET versions == {p.version : p \in {x \in DocPageRows : x.file = fullname}}
    IN IF CurrentTree \in versions THEN <<"current">>
       ELSE LET version_max == CHOOSE v \in versions : \A w \in versions : w <= v
            IN IF version_max > 0 THEN <<ToString(version_max)>> ELSE <<>>

\* The url with the version rounded to the nearest integer.
IntegerUrl_Rounded(ver, filename) ==
    <<"/docs/", ToString((ver.val + 50) \div 100), "/">> \o filename \o <<".", "html">>

\* "/docs/{0}/{1}.html".format(int(ver), filename)
IntegerUrl(ver, filename) ==
    <<"/docs/", ToString(ver.val \div 100), "/">> \o filename \o <<".", "html">>

docpage(version, filename, trail) ==
    /\ LET ver == IF version = <<"current">> THEN [NotDecimal EXCEPT !.ok = TRUE, !.val = CurrentTree]
                  ELSE IF version = <<"devel">> THEN Decimal(<<"0">>)
                  ELSE Decimal(version)
           extension == IF ver.val < 710 /\ ver.val > 0 THEN "htm" ELSE "html"
           fullname == filename \o <<".", extension>>
           release_version == LET dec == Decimal(ReplaceDash(re_sub(fullname)))
                              IN IF dec.ok /\ dec.val >= 1000 THEN quantize(dec) ELSE dec
           is_branched == IF version = <<"devel">>
                          THEN \E v \in VersionRows : v.tree = release_version.val
                          ELSE TRUE
           answer(kind, location) == DocResponse(kind, location, version, filename, trail)
       IN IF version \notin {<<"current">>, <<"devel">>} /\ ver.val = 0
          THEN resp' = answer("notfound", <<"Version not found">>)
          ELSE IF ver.val >= 1000 /\ \E k \in 1..Len(version) : version[k] = "."
          THEN resp' = answer("permanent_redirect", IntegerUrl(ver, filename))
          ELSE IF /\ Head(fullname) = "release-"
                  /\ (ver.val >= 940 \/ version = <<"devel">>)
                  /\ fullname[2] # "prior"
                  /\ ~release_version.ok
          THEN resp' = answer("notfound", <<"Invalid version format">>)
          ELSE IF /\ Head(fullname) = "release-"
                  /\ (ver.val >= 940 \/ version = <<"devel">>)
                  /\ fullname[2] # "prior"
                  /\ is_branched /\ release_version.val # ver.val
          THEN resp' = answer("permanent_redirect", ReleaseUrl(release_version, fullname))
          ELSE IF \E p \in DocPageRows : p.version = ver.val /\ p.file = fullname
          THEN resp' = [answer("page", <<>>) EXCEPT !.next = CanonicalVersion(fullname)]
          ELSE IF \E r \in DocPageRedirectRows : r.redirect_from = fullname
          THEN resp' = answer("permanent_redirect",
                              <<"/docs/">> \o version \o <<"/">>
                                 \o (CHOOSE r \in DocPageRedirectRows : r.redirect_from = fullname).redirect_to)
          ELSE resp' = answer("notfound", <<"Page not found">>)
    /\ UNCHANGED <<now, users, session, consents, lastlogin, req, rnd, ivlog, handoffs, grants, sess, wire, secondaryemail>>

\* The versions and the file names asked for.
DocVersions ==
    { <<"current">>, <<"devel">>, <<"0">>, <<"7", ".", "0">>, <<"9", ".", "3">>, <<"9", ".", "4">>,
      <<"9", ".", "6">>, <<"10">>, <<"10", ".", "0">>, <<"11">>, <<"11", ".", "0">>,
      <<"0", ".", "0">>, <<"10", ".", "5">> }
DocFilenames ==
    { <<"index">>, <<"notes">>, <<"release">>, <<"release-", "prior">>, <<"release-", "notes">>,
      <<"release-", "7", "-", "0", "-", "1">>, <<"release-", "9", "-", "3">>,
      <<"release-", "9", "-", "3", "-", "2">>, <<"release-", "9", "-", "3", "-", "2", "-", "1">>,
      <<"release-", "9", "-", "4", "-", "1">>, <<"release-", "9", "-", "6">>, <<"release-", "10">>,
      <<"release-", "10", "-", "1">>, <<"release-", "11", "-", "2">>, <<"release-", "12">> }

\* The browser asks for a page.
RequestPage(version, filename) ==
    /\ resp.kind = "none"
    /\ docpage(version, filename, <<>>)

\* The version and the file name of /docs/<version>/<filename>.<extension>.
UrlSlash(url) == CHOOSE k \in 2..Len(url) : url[k] = "/"
UrlVersion(url) == SubSeq(url, 2, UrlSlash(url) - 1)
UrlFilename(url) == SubSeq(url, UrlSlash(url) + 1, Len(url) - 2)

\* The browser follows a permanent redirect of docpage.
MaxHops == 4
FollowRedirect ==
    /\ resp.ep = "docpage" /\ resp.kind = "permanent_redirect"
    /\ Len(resp.rq.trail) < MaxHops
    /\ docpage(UrlVersion(resp.location), UrlFilename(resp.location),
               Append(resp.rq.trail, [version |-> resp.rq.version, filename |-> resp.rq.filename]))

DocNext ==
    \/ \E version \in DocVersions, filename \in DocFilenames : RequestPage(version, filename)
    \/ FollowRedirect
    \/ Deliver

DocSpec == Init /\ [][DocNext]_vars

\* ---------------------------------------------------------------------- profile
\* The highest id the sequence of account_secondaryemail hands out.
MaxEmailId == 8

\* can_change_email = (request.user.password != OAUTH_PASSWORD_STORE)
can_change_email_Always(u) == TRUE

can_change_email(u) == users[u].password # OAUTH_PASSWORD_STORE

\* SecondaryEmail.objects.filter(user=request.user)
secondaryaddresses(u) == {a \in secondaryemail.rows : a.user = u}

\* UserForm: the primary email is picked among the present one and, where it
\* may be changed, the confirmed secondary addresses.
UserFormChoices(u) ==
    {users[u].email} \cup
        (IF can_change_email(u) THEN {a.email : a \in {x \in secondaryaddresses(u) : x.confirmed}} ELSE {})

\* AddEmailForm: no address is asked for, or one that is nobody's primary or
\* secondary address yet.
AddEmailFormValid(email1) ==
    \/ email1 = <<>>
    \/ /\ \A u \in DOMAIN users : users[u].email # email1
       /\ \A a \in secondaryemail.rows : a.email # email1

\* A response of profile or confirm_add_email.
ProfileResponse(ep, kind, location, b, method, POST) ==
    Answering(Response(ep, kind, UnknownSite, session[b], location, <<>>, NoEnc), b, method, <<>>, POST)

\* profile: POST carries primaryemail, email1 and the ids of its deladdr_<id>
\* fields set to 1; valid stands for the validity of every other field of the
\* four forms, whose values are saved as they are.
profile(b, method, primaryemail, email1, deladdr, valid) ==
    /\ resp.kind = "none"
    /\ method = "GET" => (primaryemail = <<>> /\ email1 = <<>> /\ deladdr = {} /\ ~valid)
    /\ LET u == session[b]
           POST == IF method = "POST"
                   THEN [primaryemail |-> primaryemail, email1 |-> email1, deladdr |-> deladdr]
                   ELSE <<>>
           answer(kind, location) == ProfileResponse("profile", kind, location, b, method, POST)
       IN IF u = Anonymous
          THEN \* @login_required
               /\ resp' = answer("login_required", <<>>)
               /\ UNCHANGED <<users, secondaryemail>>
          ELSE IF method = "POST" /\ valid /\ primaryemail \in UserFormChoices(u) /\ AddEmailFormValid(email1)
          THEN LET changed == can_change_email(u) /\ primaryemail # users[u].email
                   oldemail == users[u].email
                   made == [id |-> secondaryemail.nextid, user |-> u, email |-> oldemail,
                            confirmed |-> TRUE, token |-> 0]
                   flipped == IF changed
                              THEN {a \in secondaryemail.rows \cup {made} :
                                       ~(a.user = u /\ a.email = primaryemail)}
                              ELSE secondaryemail.rows
                   id1 == IF changed THEN secondaryemail.nextid + 1 ELSE secondaryemail.nextid
                   sa == [id |-> id1, user |-> u, email |-> email1, confirmed |-> FALSE, token |-> id1]
                   added == IF email1 # <<>> THEN flipped \cup {sa} ELSE flipped
                   id2 == IF email1 # <<>> THEN id1 + 1 ELSE id1
               IN /\ id2 <= MaxEmailId + 1
                  /\ users' = [users EXCEPT ![u].email = IF changed THEN primaryemail ELSE @]
                  /\ secondaryemail' = [rows |-> {a \in added : ~(a.user = u /\ a.id \in deladdr)},
                                        nextid |-> id2]
                  /\ resp' = answer("redirect", <<".">>)
          ELSE /\ resp' = answer("form", <<>>)
               /\ UNCHANGED <<users, secondaryemail>>
    /\ UNCHANGED <<now, session, consents, lastlogin, req, rnd, ivlog, handoffs, grants, sess, wire>>

\* confirm_add_email: the address of the user with this token is confirmed.
confirm_add_email(b, tokenhash) ==
    /\ resp.kind = "none"
    /\ LET u == session[b]
           answer(kind, location) == ProfileResponse("confirm_add_email", kind, location, b, "GET", <<>>)
           found == {a \in secondaryemail.rows : a.user = u /\ a.token = tokenhash}
       IN IF u = Anonymous
          THEN resp' = answer("login_required", <<>>) /\ UNCHANGED secondaryemail
          ELSE IF found = {}
          THEN resp' = answer("notfound", <<>>) /\ UNCHANGED secondaryemail
          ELSE /\ secondaryemail' =
                     [secondaryemail EXCEPT !.rows = {IF a \in found THEN [a EXCEPT !.confirmed = TRUE, !.token = 0]
                                                      ELSE a : a \in secondaryemail.rows}]
               /\ resp' = answer("redirect", <<"/account/profile/">>)
    /\ UNCHANGED <<now, users, session, consents, lastlogin, req, rnd, ivlog, handoffs, grants, sess, wire>>

\* User 2 is an account created through OAuth, with a confirmed secondary
\* address; either user, or nobody, is logged in.
ProfileInit ==
    /\ now = StartTime
    /\ \E p \in {x \in UserOneProfiles : x.first_name # <<>> /\ x.last_name # <<>> /\ x.email # <<>>} :
          users = [u \in Users |-> IF u = 1 THEN p
                                   ELSE IF u = 2 THEN [UserTwo EXCEPT !.password = OAUTH_PASSWORD_STORE]
                                   ELSE UserThree]
    /\ session \in [Browsers -> {Anonymous, 1, 2}]
    /\ secondaryemail =
          [rows |-> SecondaryEmail \cup {[id |-> 6, user |-> 2, email |-> <<"f", "@">>, confirmed |-> TRUE, token |-> 0]},
           nextid |-> 7]
    /\ consents = {}
    /\ lastlogin = [k \in Users \X Sites |-> NoRow]
    /\ req = [r \in Reqs |-> IdleReq]
    /\ rnd = 0
    /\ ivlog = <<>>
    /\ resp = NoResponse
    /\ handoffs = [k \in Users \X Sites |-> 0]
    /\ grants = [k \in Users \X Orgs |-> NoGrant]
    /\ sess = [b \in Browsers |-> EmptySession]
    /\ wire = NoWire

\* The addresses and the deladdr ids a POST names.
PostedAddresses == {<<"a", "@">>, <<"b", "@">>, <<"c", "@">>, <<"d", "@">>, <<"f", "@">>, <<"n", "@">>}
AddedAddresses == {<<>>, <<"a", "@">>, <<"c", "@">>, <<"n", "@">>}
PostedDeletions == {{}} \cup {{i} : i \in 1..MaxEmailId}

ProfileNext ==
    \/ \E b \in Browsers, primaryemail \in PostedAddresses, email1 \in AddedAddresses,
           deladdr \in PostedDeletions, valid \in BOOLEAN :
            profile(b, "POST", primaryemail, email1, deladdr, valid)
    \/ \E b \in Browsers : profile(b, "GET", <<>>, <<>>, {}, FALSE)
    \/ \E b \in Browsers, tokenhash \in 1..MaxEmailId : confirm_add_email(b, tokenhash)
    \/ Deliver

ProfileSpec == ProfileInit /\ [][ProfileNext]_vars

\* ------------------------------------------------------------------------- C1
\* C1: communityauth redirects to the partner's redirecturl with the two
\* parameters i and d only for a request that passed every gate (a logged-in
\* user with first name, last name and email, past the site's cooloff, with a
\* consent record where the organisation requires one); every other response
\* of communityauth carries no encrypted record and does not go to a partner.
C1_Passes ==
    \A r \in Reqs : PassesChecks(r) =>
        LET uid == req'[r].uid
            sid == req'[r].site
        IN /\ uid # Anonymous
           /\ \E b \in Browsers : session[b] = uid
           /\ sid \in Sites
           /\ Complete(uid)
           /\ CooloffElapsed(uid, sid)
           /\ ConsentSettled(uid, sid)

C1_Redirect ==
    (resp.kind = "none" /\ resp'.kind = "partner_redirect") =>
        \E r \in Reqs :
            /\ req[r].pc = "upsert" /\ req'[r].pc = "idle"
            /\ resp'.user = req[r].uid
            /\ resp'.siteid = req[r].site
            /\ resp'.location = <<CommunityAuthSite[req[r].site].redirecturl, "?i=", "&d=">>
            /\ resp'.enc # NoEnc

C1_Others ==
    AnswersAtOnce =>
        /\ resp'.enc = NoEnc
        /\ resp'.location # <<>> => Head(resp'.location) \notin PartnerUrls

C1_HandoffOnlyPastAllGates == [][C1_Passes /\ C1_Redirect /\ C1_Others]_vars

\* A handoff to site 1, which has a cooloff and whose organisation requires consent.
C1_Witness ==
    /\ resp.kind = "partner_redirect"
    /\ resp.siteid = 1
    /\ resp.enc # NoEnc

\* ------------------------------------------------------------------------- C2
\* C2: for every (user, site) the stored logincount is the number of that
\* user's requests for that site that passed all checks, less those still
\* before their upsert; every change of a row adds exactly 1 to its count
\* (the first makes it 1) and sets lastlogin to the current time, and no
\* count ever decreases.
BeforeUpsert(uid, sid) ==
    Cardinality({r \in Reqs : req[r].pc = "upsert" /\ req[r].uid = uid /\ req[r].site = sid})

C2_Counts ==
    \A uid \in Users, sid \in Sites :
        lastlogin[<<uid, sid>>].logincount + BeforeUpsert(uid, sid) = handoffs[<<uid, sid>>]

C2_Steps ==
    \A k \in Users \X Sites :
        /\ lastlogin'[k].logincount >= lastlogin[k].logincount
        /\ lastlogin'[k] # lastlogin[k] =>
              /\ lastlogin'[k].logincount = lastlogin[k].logincount + 1
              /\ lastlogin'[k].lastlogin = now
              /\ \E r \in Reqs : req[r].pc = "upsert" /\ req'[r].pc = "idle" /\ <<req[r].uid, req[r].site>> = k

C2_LoginCountExact == [](C2_Counts) /\ [][C2_Steps]_vars

\* Two requests of user 1 for site 2 were in flight together: the one has done
\* its upsert, the other has not yet.
C2_Witness ==
    /\ lastlogin[<<1, 2>>].logincount = 1
    /\ req[1].pc = "idle"
    /\ req[2].pc = "upsert" /\ req[2].uid = 1 /\ req[2].site = 2
    /\ handoffs[<<1, 2>>] = 2

\* ------------------------------------------------------------------------- C3
\* The payload communityauth keeps of each query string of the model.
ExpectedPayload(GET) ==
    IF "d" \in DOMAIN GET /\ GET.d = <<"a", "=">> THEN <<"?", "d", "=", "a", "=">>
    ELSE IF "su" \in DOMAIN GET /\ GET.su = <<"/", "x">> THEN <<"?", "s", "u", "=", "/", "x">>
    ELSE IF "su" \in DOMAIN GET /\ GET.su = <<"/", "a", "+", "b">>
    THEN <<"?", "s", "u", "=", "/", "a", "+", "b">>
    ELSE <<>>

ExpectedReturnPath(response) ==
    <<"/account/auth/", ToString(response.siteid), "/">> \o ExpectedPayload(response.rq.GET)

\* A step in which communityauth answers the request of an anonymous browser
\* for a registered site.
AnswersAnonymous ==
    /\ AnswersAtOnce
    /\ resp'.siteid \in Sites
    /\ session[resp'.rq.b] = Anonymous

IsPostback(rq) ==
    rq.method = "POST" /\ "next" \in DOMAIN rq.POST /\ "this_is_the_login_form" \in DOMAIN rq.POST

\* C3 as claimed: every anonymous request gets the login form with the built
\* return path as its post-login target, and nothing is written.
C3_AsClaimed ==
    [][AnswersAnonymous =>
          /\ resp'.kind = "login_form"
          /\ resp'.next = ExpectedReturnPath(resp')
          /\ UNCHANGED <<lastlogin, consents, req, handoffs, ivlog>>]_vars

\* C3, amended: an anonymous request is handed to the login view and writes
\* no counter, no consent and sends nothing to the partner; unless valid
\* credentials are posted the login form is presented, and its post-login
\* target is the built return path, or on a postback of the login form the
\* next value that was posted.
C3_LoginFormForAnonymous ==
    [][AnswersAnonymous =>
          /\ UNCHANGED <<lastlogin, consents, req, handoffs, ivlog>>
          /\ resp'.enc = NoEnc
          /\ resp'.kind \in {"login_form", "login_redirect"}
          /\ resp'.kind = "login_redirect" => resp'.rq.method = "POST" /\ session'[resp'.rq.b] # Anonymous
          /\ resp'.kind = "login_form" =>
                resp'.next = IF IsPostback(resp'.rq) THEN resp'.rq.POST.next
                             ELSE ExpectedReturnPath(resp')]_vars

\* The login form shown for a payload-carrying request, and shown again on a
\* postback with the posted next.
C3_Witness ==
    /\ resp.ep = "communityauth" /\ resp.kind = "login_form"
    /\ IsPostback(resp.rq)
    /\ resp.next = resp.rq.POST.next
    /\ resp.next # ExpectedReturnPath(resp)

\* ------------------------------------------------------------------------- C4
\* A step in which communityauth answers a logged-in browser's request for a
\* registered site.
AnswersUser ==
    /\ AnswersAtOnce
    /\ resp'.siteid \in Sites
    /\ session[resp'.rq.b] # Anonymous

\* C4: a logged-in user without first name, last name or email gets the
\* no-info page, and the request goes no further: no cooloff page, no consent
\* redirect, no upsert, no partner redirect.
C4_NoInfoStopsHandoff ==
    [][/\ (AnswersUser /\ ~Complete(session[resp'.rq.b])) =>
             /\ resp'.kind = "noinfo"
             /\ resp'.enc = NoEnc
             /\ UNCHANGED <<lastlogin, consents, req, handoffs, ivlog>>
       /\ \A r \in Reqs : PassesChecks(r) => Complete(req'[r].uid)
       /\ (resp.kind = "none" /\ resp'.kind = "partner_redirect") => Complete(resp'.user)]_vars

\* The no-info page for a user whose only gap is the email, at a site whose
\* cooloff is still running and whose consent is not on record.
C4_Witness ==
    /\ resp.kind = "noinfo"
    /\ users[resp.user].email = <<>>
    /\ users[resp.user].first_name # <<>> /\ users[resp.user].last_name # <<>>
    /\ resp.siteid = 1
    /\ ~CooloffElapsed(resp.user, 1)
    /\ ~ConsentOnRecord(resp.user, 1)

\* ------------------------------------------------------------------------- C5
Cooling(uid, sid) ==
    /\ CommunityAuthSite[sid].cooloff_hours > 0
    /\ now - users[uid].date_joined < CommunityAuthSite[sid].cooloff_hours

\* C5: a logged-in user with a complete profile gets the cooloff page exactly
\* when the site has cooloff_hours > 0 and now - date_joined is less than it,
\* whatever the last login and the (user, site) lastlogin row; the page comes
\* with no upsert and no partner redirect, and no request passes while cooling.
C5_CooloffByCreationTime ==
    [][/\ (AnswersUser /\ Complete(session[resp'.rq.b])) =>
             /\ resp'.kind = "cooloff" <=> Cooling(session[resp'.rq.b], resp'.siteid)
             /\ resp'.kind = "cooloff" =>
                   resp'.enc = NoEnc /\ UNCHANGED <<lastlogin, consents, req, handoffs, ivlog>>
       /\ \A r \in Reqs : PassesChecks(r) => ~Cooling(req'[r].uid, req'[r].site)]_vars

\* The cooloff page at site 1 for a user who has already been handed to site 2.
C5_Witness ==
    /\ resp.kind = "cooloff"
    /\ resp.siteid = 1
    /\ lastlogin[<<resp.user, 2>>].logincount > 0

\* ------------------------------------------------------------------------- C6
\* C6: for a logged-in user with a complete profile and past the cooloff, the
\* answer is the redirect to the consent step of that site exactly when the
\* organisation requires consent and none is on record, and it leaves the
\* login counter alone; otherwise the request goes on to the handoff.
C6_ConsentStep ==
    [][/\ (AnswersUser /\ Complete(session[resp'.rq.b])
                       /\ ~Cooling(session[resp'.rq.b], resp'.siteid)) =>
             /\ resp'.kind = "consent_redirect"
             /\ ~ConsentSettled(session[resp'.rq.b], resp'.siteid)
             /\ SubSeq(resp'.location, 1, 3) = <<"/account/auth/", ToString(resp'.siteid), "/consent/?">>
             /\ UNCHANGED <<lastlogin, consents, req, handoffs, ivlog>>
       /\ (resp.kind = "none" /\ resp'.kind = "consent_redirect") => AnswersUser
       /\ \A r \in Reqs : PassesChecks(r) => ConsentSettled(req'[r].uid, req'[r].site)]_vars

\* A request for site 3, whose organisation asks no consent, passes without a
\* consent record, while site 2 has sent the user to the consent step.
C6_Witness ==
    /\ resp.kind = "consent_redirect"
    /\ resp.siteid = 2
    /\ \E r \in Reqs : req[r].pc = "upsert" /\ req[r].site = 3
    /\ consents = {}

\* ------------------------------------------------------------------------- C7
ConsentRows(uid, org) == {c \in consents : c.user = uid /\ c.org = org}

\* C7: once a user has submitted a valid consent form for an organisation,
\* there is exactly one consent row for the pair, and its consentgiven is the
\* time of the first submission, however many followed.
C7_ConsentIdempotent ==
    \A uid \in Users, org \in Orgs :
        IF grants[<<uid, org>>] = NoGrant
        THEN ConsentRows(uid, org) = {}
        ELSE ConsentRows(uid, org) = {[user |-> uid, org |-> org, consentgiven |-> grants[<<uid, org>>]]}

\* A valid submission through site 2 after an earlier one for the same organisation.
C7_Witness ==
    /\ resp.kind = "consent_next"
    /\ resp.siteid = 2
    /\ grants[<<resp.user, "orgA">>] # NoGrant
    /\ grants[<<resp.user, "orgA">>] < now

\* ------------------------------------------------------------------------- C8
\* C8: no step of the flow removes or changes a consent row.
C8_ConsentNeverRevoked == [][consents \subseteq consents']_vars

\* A consent on record when the user logs out through a partner.
C8_Witness ==
    /\ consents # {}
    /\ resp.kind = "logout_redirect"
    /\ resp.user # Anonymous

\* ------------------------------------------------------------------------- C9
\* C9: whatever is encrypted for a request is encrypted with the cryptkey of
\* the site the request names and with no other site's; the handoff and the
\* answers of search and getkeys go out encrypted, and a response that is not
\* encrypted carries nothing to a partner but the logout marker.
C9_OwnKeyOnly ==
    /\ resp.enc # NoEnc =>
          /\ resp.siteid \in Sites
          /\ resp.enc.key = CommunityAuthSite[resp.siteid].cryptkey
          /\ \A s \in Sites \ {resp.siteid} : resp.enc.key # CommunityAuthSite[s].cryptkey
          /\ resp.kind \in {"partner_redirect", "encrypted"}
    /\ resp.kind \in {"partner_redirect", "encrypted"} => resp.enc # NoEnc
    /\ resp.ep \in {"communityauth_search", "communityauth_getkeys"} =>
          resp.kind \in {"encrypted", "notfound", "server_error"}
    /\ (resp.enc = NoEnc /\ resp.location # <<>> /\ Head(resp.location) \in PartnerUrls) =>
          /\ resp.kind = "logout_redirect"
          /\ resp.location = <<CommunityAuthSite[resp.siteid].redirecturl, "?s=logout">>

\* A search answered for site 3.
C9_Witness ==
    /\ resp.ep = "communityauth_search"
    /\ resp.kind = "encrypted"
    /\ resp.siteid = 3
    /\ resp.enc.key = "key3"

\* ------------------------------------------------------------------------ C10
\* C10: every encryption reads its own 16 bytes from the random source: one
\* read per encryption and none kept, so no two encryptions share an IV.
C10_FreshIV ==
    /\ rnd = Len(ivlog)
    /\ \A i, j \in 1..Len(ivlog) : ivlog[i] = ivlog[j] => i = j
    /\ resp.enc # NoEnc =>
          /\ resp.enc.ivlen = 16
          /\ resp.enc.iv = ivlog[Len(ivlog)]

\* A search encrypted after a handoff: the second encryption of the run.
C10_Witness ==
    /\ Len(ivlog) = 2
    /\ resp.ep = "communityauth_search" /\ resp.kind = "encrypted"
    /\ \E k \in Users \X Sites : lastlogin[k].logincount = 1

\* ------------------------------------------------------------------------ C11
\* What a partner reads back from a decrypted record: the padding stripped,
\* the string split at '&' and at the first '=', each part unquoted.
RECURSIVE RStrip(_)
RStrip(str) ==
    IF str # <<>> /\ str[Len(str)] = " " THEN RStrip(SubSeq(str, 1, Len(str) - 1)) ELSE str

RECURSIVE SplitFrom(_, _, _)
SplitFrom(str, sep, cur) ==
    IF str = <<>> THEN <<cur>>
    ELSE IF Head(str) = sep THEN <<cur>> \o SplitFrom(Tail(str), sep, <<>>)
    ELSE SplitFrom(Tail(str), sep, Append(cur, Head(str)))

Split(str, sep) == SplitFrom(str, sep, <<>>)

Unescape(h, l) ==
    CASE <<h, l>> = <<"2", "B">> -> "+"
      [] <<h, l>> = <<"2", "F">> -> "/"
      [] <<h, l>> = <<"3", "F">> -> "?"
      [] <<h, l>> = <<"3", "D">> -> "="
      [] <<h, l>> = <<"2", "4">> -> "$"
      [] <<h, l>> = <<"2", "6">> -> "&"
      [] <<h, l>> = <<"4", "0">> -> "@"
      [] <<h, l>> = <<"2", "5">> -> "%"
      [] <<h, l>> = <<"2", "C">> -> ","
      [] OTHER -> "?"

RECURSIVE unquote_plus(_)
unquote_plus(str) ==
    IF str = <<>> THEN <<>>
    ELSE IF Head(str) = "+" THEN <<" ">> \o unquote_plus(Tail(str))
    ELSE IF Head(str) = "%" /\ Len(str) >= 3
         THEN <<Unescape(str[2], str[3])>> \o unquote_plus(SubSeq(str, 4, Len(str)))
    ELSE <<Head(str)>> \o unquote_plus(Tail(str))

ParsePair(p) ==
    LET eqs == {i \in 1..Len(p) : p[i] = "="}
        at == IF eqs = {} THEN Len(p) + 1 ELSE CHOOSE i \in eqs : \A j \in eqs : i <= j
    IN [k |-> unquote_plus(SubSeq(p, 1, at - 1)), v |-> unquote_plus(SubSeq(p, at + 1, Len(p)))]

parse_qsl(str) == LET parts == Split(str, "&") IN [i \in 1..Len(parts) |-> ParsePair(parts[i])]

IsSorted(list) == \A i \in 1..(Len(list) - 1) : StrLess(list[i], list[i + 1])

\* Characters of a URL-encoded query string.
QueryChars == AlwaysSafe \cup {"&", "=", "%", "+", "C", "D", "F"}

\* The request whose record the step encrypts.
Finishing(r) == req[r].pc = "upsert" /\ req'[r].pc = "idle"

\* C11: the record communityauth encrypts is a URL-encoded query string that
\* reads back as t (the current time) first, then u, f, l and e of the user,
\* then se, the user's confirmed secondary addresses in ascending order and
\* none of the unconfirmed, and last the payload that was carried, equal to
\* the value the request came with.
C11_RecordFields ==
    [][\A r \in Reqs : Finishing(r) =>
          LET rec == RStrip(resp'.enc.plain)
              q == parse_qsl(rec)
              user == users[req[r].uid]
              se == IF q[6].v = <<>> THEN <<>> ELSE Split(q[6].v, ",")
              mine == {a \in SecondaryEmail : a.user = req[r].uid}
          IN /\ \A i \in 1..Len(rec) : rec[i] \in QueryChars \/ rec[i] = ToString(now)
             /\ Len(q) \in {6, 7}
             /\ q[1] = [k |-> <<"t">>, v |-> <<ToString(now)>>]
             /\ q[2] = [k |-> <<"u">>, v |-> user.username]
             /\ q[3] = [k |-> <<"f">>, v |-> user.first_name]
             /\ q[4] = [k |-> <<"l">>, v |-> user.last_name]
             /\ q[5] = [k |-> <<"e">>, v |-> user.email]
             /\ q[6].k = <<"s", "e">>
             /\ IsSorted(se)
             /\ {se[i] : i \in 1..Len(se)} = {a.email : a \in {x \in mine : x.confirmed}}
             /\ \A a \in mine : ~a.confirmed => \A i \in 1..Len(se) : se[i] # a.email
             /\ Len(q) = 7 <=> ExpectedPayload(req[r].GET) # <<>>
             /\ Len(q) = 7 =>
                   \/ q[7].k = <<"d">> /\ q[7].v = req[r].GET.d
                   \/ q[7].k = <<"s", "u">> /\ q[7].v = req[r].GET.su]_vars

\* A record with two secondary addresses and a d payload holding '='.
C11_Witness ==
    /\ resp.kind = "partner_redirect"
    /\ LET q == parse_qsl(RStrip(resp.enc.plain))
       IN /\ Len(q) = 7
          /\ q[7] = [k |-> <<"d">>, v |-> <<"a", "=">>]
          /\ Split(q[6].v, ",") = << <<"b", "@">>, <<"c", "@">> >>

\* ------------------------------------------------------------------------ C12
\* C12: the plaintext is padded with spaces to a multiple of 16: the padded
\* text is the plaintext followed by 16 - (n mod 16) spaces, between 1 and 16
\* of them, so a plaintext of a multiple of 16 characters gets 16 more.
C12_PadToBlock ==
    wire # NoWire =>
        LET n == Len(wire.plain)
            m == Len(wire.padded)
        IN /\ m % 16 = 0
           /\ m - n = 16 - (n % 16)
           /\ m - n \in 1..16
           /\ SubSeq(wire.padded, 1, n) = wire.plain
           /\ \A k \in (n + 1)..m : wire.padded[k] = " "
           /\ n % 16 = 0 => m = n + 16
           /\ Len(wire.cipher) = m

\* A plaintext of 32 characters, padded to 48.
C12_Witness ==
    /\ Len(wire.plain) = 32
    /\ Len(wire.padded) = 48
    /\ wire.by = "_encrypt_site_response"

\* ------------------------------------------------------------------------ C13
\* The URL-safe base64 alphabet: letters, digits, '-' and '_'.
UrlSafeChars == {B64Alphabet[k] : k \in 1..62} \cup {"-", "_"}

\* C13 as claimed: the encoded IV and the encoded ciphertext are written in
\* the URL-safe alphabet alone, with '-' for '+' and '_' for '/', and hold no
\* '=' padding character, whatever the IV and the length of the ciphertext.
C13_AsClaimed ==
    wire # NoWire =>
        /\ \A k \in 1..Len(wire.i) : wire.i[k] \in UrlSafeChars
        /\ \A k \in 1..Len(wire.d) : wire.d[k] \in UrlSafeChars

\* ------------------------------------------------------------------------ C14
\* A step in which communityauth_logout answers for a registered site.
AnswersLogout ==
    /\ resp.kind = "none"
    /\ resp'.ep = "communityauth_logout"
    /\ resp'.siteid \in Sites

\* C14: logout at a registered site leaves the browser's session anonymous
\* and redirects to the site's redirecturl with ?s=logout, whether a user was
\* logged in or not; nothing is encrypted, and the login counters and the
\* consent records stay as they were.
C14_Logout ==
    [][AnswersLogout =>
          /\ session'[resp'.rq.b] = Anonymous
          /\ resp'.kind = "logout_redirect"
          /\ resp'.location = <<CommunityAuthSite[resp'.siteid].redirecturl, "?s=logout">>
          /\ resp'.enc = NoEnc
          /\ UNCHANGED <<lastlogin, consents, rnd, ivlog, req, handoffs, grants>>]_vars

\* The logout of a user who has been handed to the site before.
C14_Witness ==
    /\ resp.kind = "logout_redirect"
    /\ resp.user # Anonymous
    /\ session[resp.rq.b] = Anonymous
    /\ lastlogin[<<resp.user, resp.siteid>>].logincount > 0

\* ------------------------------------------------------------------------ C15
\* A step in which an endpoint answers a request that names no registered site.
AnswersUnknownSite ==
    /\ resp.kind = "none"
    /\ resp'.kind # "none"
    /\ resp'.siteid \notin Sites

NothingDone ==
    /\ resp'.enc = NoEnc
    /\ UNCHANGED <<session, sess, users, lastlogin, consents, grants, req, handoffs, rnd, ivlog>>

\* C15 as claimed: every endpoint answers not-found for a site id that is not
\* registered, and changes nothing.
C15_AsClaimed ==
    [][AnswersUnknownSite => (resp'.kind = "notfound" /\ NothingDone)]_vars

\* C15, amended: for a site id that is not registered nothing is changed and
\* nothing is encrypted; the answer is not-found, except that the consent step
\* sends an anonymous browser to the login page before it looks the site up.
C15_UnknownSite ==
    [][AnswersUnknownSite =>
          /\ NothingDone
          /\ IF resp'.ep = "communityauth_consent" /\ session[resp'.rq.b] = Anonymous
             THEN resp'.kind = "login_required"
             ELSE resp'.kind = "notfound"]_vars

\* The consent step asked for the unknown site by a logged-in user with a
\* consent on record.
C15_Witness ==
    /\ resp.ep = "communityauth_consent"
    /\ resp.kind = "notfound"
    /\ session[resp.rq.b] # Anonymous
    /\ consents # {}

\* ------------------------------------------------------------------------ C16
\* The characters a d payload may hold, and a payload holding another.
PayloadChars == UrlSafeChars \cup {".", "~", "=", "$"}
Malformed(GET) == "d" \in DOMAIN GET /\ \E k \in 1..Len(GET.d) : GET.d[k] \notin PayloadChars
Stripped(d) == SelectSeq(d, LAMBDA c : c \in PayloadChars)

\* The outcome the checks of communityauth give a user at a site.
Outcome(uid, sid) ==
    IF uid = Anonymous THEN "login"
    ELSE IF ~Complete(uid) THEN "noinfo"
    ELSE IF Cooling(uid, sid) THEN "cooloff"
    ELSE IF ~ConsentSettled(uid, sid) THEN "consent_redirect"
    ELSE "pass"

\* The payload a response carries on: in the next of the login form shown to
\* a request that is no postback, and in the next of the consent redirect.
Carries(response) == response.kind = "consent_redirect"
                        \/ (response.kind = "login_form" /\ ~IsPostback(response.rq))
ForwardedPayload(response) ==
    IF response.kind = "login_form" THEN SubSeq(response.next, 4, Len(response.next))
    ELSE unquote_plus(SubSeq(response.location, 11, Len(response.location)))

\* The payload field of the record of the request r that finishes.
RecordPayload == LET q == parse_qsl(RStrip(resp'.enc.plain))
                 IN IF Len(q) = 7 THEN q[7] ELSE [k |-> <<>>, v |-> <<>>]

\* Every request, whatever its payload, gets the outcome of the checks.
SameChecks ==
    /\ (AnswersAtOnce /\ resp'.siteid \in Sites) =>
          LET o == Outcome(session[resp'.rq.b], resp'.siteid)
          IN IF o = "login" THEN resp'.kind \in {"login_form", "login_redirect"} ELSE resp'.kind = o
    /\ \A r \in Reqs : PassesChecks(r) => Outcome(req'[r].uid, req'[r].site) = "pass"

\* C16 as claimed: a request with a malformed d goes through the same checks
\* as any other, and what is carried on is d without its malformed characters.
C16_AsClaimed ==
    [][/\ SameChecks
       /\ (AnswersAtOnce /\ resp'.siteid \in Sites /\ Malformed(resp'.rq.GET) /\ Carries(resp')) =>
             ForwardedPayload(resp') = <<"?", "d", "=">> \o Stripped(resp'.rq.GET.d)
       /\ \A r \in Reqs : (Finishing(r) /\ Malformed(req[r].GET)) =>
             RecordPayload = [k |-> <<"d">>, v |-> Stripped(req[r].GET.d)]]_vars

\* C16, amended: a malformed d never makes communityauth reject the request,
\* which goes through the same checks as any other; the whole d value is
\* discarded, its well-formed characters too, so that no d is carried on.
C16_MalformedDropped ==
    [][/\ SameChecks
       /\ (AnswersAtOnce /\ resp'.siteid \in Sites /\ Malformed(resp'.rq.GET) /\ Carries(resp')) =>
             \/ ForwardedPayload(resp') = <<>>
             \/ SubSeq(ForwardedPayload(resp'), 1, 4) = <<"?", "s", "u", "=">>
       /\ \A r \in Reqs : (Finishing(r) /\ Malformed(req[r].GET)) => RecordPayload.k # <<"d">>]_vars

\* A handoff made for a request whose d was malformed.
C16_Witness ==
    /\ resp.kind = "partner_redirect"
    /\ LET q == parse_qsl(RStrip(resp.enc.plain))
       IN Len(q) = 7 /\ q[7] = [k |-> <<"s", "u">>, v |-> <<"/", "x">>]

\* ------------------------------------------------------------------------ C17
\* A step in which signup_oauth answers.
AnswersSignup == resp.kind = "none" /\ resp'.ep = "signup_oauth"

\* C17: whenever one of oauth_email, oauth_firstname and oauth_lastname is
\* missing from the session, signup_oauth answers 'Invalid redirect received'
\* whatever the method, creates no account and logs nobody in.
C17_OAuthPrerequisites ==
    [][(AnswersSignup /\ \E k \in {"oauth_email", "oauth_firstname", "oauth_lastname"} :
                             k \notin DOMAIN sess[resp'.rq.b]) =>
          /\ resp'.kind = "oauth_error"
          /\ resp'.location = <<"Invalid redirect received">>
          /\ UNCHANGED <<users, session, sess>>]_vars

\* The error for a valid POST from a session that lacks only the last name.
C17_Witness ==
    /\ resp.ep = "signup_oauth"
    /\ resp.kind = "oauth_error"
    /\ resp.rq.method = "POST"
    /\ DOMAIN sess[resp.rq.b] = {"oauth_email", "oauth_firstname", "login_next"}
    /\ DOMAIN users = Users

\* ------------------------------------------------------------------------ C18
\* The filter a search is to use: the first of s, e, n and u that is given
\* and not empty.
SearchKeys == <<"s", "e", "n", "u">>
SearchKey(GET) ==
    LET given == {i \in 1..4 : SearchKeys[i] \in DOMAIN GET /\ GET[SearchKeys[i]] # <<>>}
    IN IF given = {} THEN "" ELSE SearchKeys[CHOOSE i \in given : \A j \in given : i <= j]

Listed(u, GET) ==
    /\ u.is_active
    /\ CASE SearchKey(GET) = "s" ->
                icontains(u.email, GET.s) \/ icontains(u.first_name, GET.s) \/ icontains(u.last_name, GET.s)
         [] SearchKey(GET) = "e" -> icontains(u.email, GET.e)
         [] SearchKey(GET) = "n" -> icontains(u.first_name, GET.n) \/ icontains(u.last_name, GET.n)
         [] SearchKey(GET) = "u" -> u.username = GET.u
         [] OTHER -> FALSE

\* The results a search may send: the listed users in some order, each with
\* the confirmed ones of their secondary addresses in some order.
SearchResults(GET) ==
    LET listed == {u \in Users : Listed(users[u], GET)}
        confirmed(u) == {a.email : a \in {x \in SecondaryEmail : x.user = u /\ x.confirmed}}
    IN {SearchJson(userorder, seorder) :
            userorder \in Orderings(listed),
            seorder \in {f \in [Users -> UNION {Orderings(confirmed(u)) : u \in Users}] :
                            \A u \in Users : f[u] \in Orderings(confirmed(u))}}

\* C18: a search with none of s, e, n and u non-empty is answered not-found
\* and encrypts nothing; any other lists the active users that match the
\* first non-empty of s (email, first or last name contains it), e (email
\* contains), n (first or last name contains) and u (the username is it),
\* each with exactly their confirmed secondary addresses.
C18_Search ==
    [][(resp.kind = "none" /\ resp'.ep = "communityauth_search" /\ resp'.siteid \in Sites) =>
          IF SearchKey(resp'.rq.GET) = ""
          THEN resp'.kind = "notfound" /\ resp'.enc = NoEnc /\ UNCHANGED <<rnd, ivlog>>
          ELSE /\ resp'.kind = "encrypted"
               /\ RStrip(resp'.enc.plain) \in SearchResults(resp'.rq.GET)]_vars

\* A search given both s and e: s decides, users 1 and 2 are listed, and the
\* deactivated user 3, whose first name matches, is not.
C18_Witness ==
    /\ resp.ep = "communityauth_search" /\ resp.kind = "encrypted"
    /\ resp.rq.GET = [s |-> <<"a">>, e |-> <<"b", "@">>]
    /\ Listed(UserThree, [s |-> <<"a">>]) = FALSE
    /\ \E seorder \in [Users -> {<<>>, << <<"b", "@">>, <<"c", "@">> >>, << <<"x", "@">> >>}] :
          RStrip(resp.enc.plain) = SearchJson(<<2, 1>>, seorder)

\* ------------------------------------------------------------------------ C19
\* The one payload a request is to carry.
NoPayload == [k |-> <<>>, v |-> <<>>]
Choice(GET) ==
    IF "d" \in DOMAIN GET /\ GET.d # <<>> /\ ~Malformed(GET) THEN [k |-> <<"d">>, v |-> GET.d]
    ELSE IF "su" \in DOMAIN GET /\ GET.su # <<>> /\ Head(GET.su) = "/" THEN [k |-> <<"s", "u">>, v |-> GET.su]
    ELSE NoPayload

AsQuery(c) == IF c = NoPayload THEN <<>> ELSE <<"?">> \o c.k \o <<"=">> \o c.v

\* C19: communityauth carries at most one payload: d when it is given, not
\* empty and well-formed, else su when it begins with '/', else none; the
\* login return path, the consent return path and the encrypted record carry
\* that same choice, and never both d and su.
C19_OnePayload ==
    [][/\ (AnswersAtOnce /\ resp'.siteid \in Sites /\ Carries(resp')) =>
             ForwardedPayload(resp') = AsQuery(Choice(resp'.rq.GET))
       /\ \A r \in Reqs : Finishing(r) =>
             LET q == parse_qsl(RStrip(resp'.enc.plain))
             IN /\ RecordPayload = Choice(req[r].GET)
                /\ Cardinality({i \in 1..Len(q) : q[i].k \in {<<"d">>, <<"s", "u">>}}) <= 1]_vars

\* The consent redirect for a request that came with a d and an su: d alone
\* is in its return path.
C19_Witness ==
    /\ resp.kind = "consent_redirect"
    /\ resp.rq.GET = [d |-> <<"a", "=">>, su |-> <<"/", "x">>]
    /\ ForwardedPayload(resp) = <<"?", "d", "=", "a", "=">>

\* ------------------------------------------------------------------------ C20
\* The release a release-notes file name is about, as a version reads it:
\* major.minor below 10, the major alone from 10 up; <<>> where none can be
\* read.  The value is in hundredths.
ReleaseOf(filename) ==
    CASE filename = <<"release-", "7", "-", "0", "-", "1">> -> [text |-> <<"7", ".", "0">>, val |-> 700]
      [] filename = <<"release-", "9", "-", "3">> -> [text |-> <<"9", ".", "3">>, val |-> 930]
      [] filename = <<"release-", "9", "-", "3", "-", "2">> -> [text |-> <<"9", ".", "3">>, val |-> 930]
      [] filename = <<"release-", "9", "-", "4", "-", "1">> -> [text |-> <<"9", ".", "4">>, val |-> 940]
      [] filename = <<"release-", "9", "-", "6">> -> [text |-> <<"9", ".", "6">>, val |-> 960]
      [] filename = <<"release-", "10">> -> [text |-> <<"10">>, val |-> 1000]
      [] filename = <<"release-", "10", "-", "1">> -> [text |-> <<"10">>, val |-> 1000]
      [] filename = <<"release-", "11", "-", "2">> -> [text |-> <<"11">>, val |-> 1100]
      [] filename = <<"release-", "12">> -> [text |-> <<"12">>, val |-> 1200]
      [] OTHER -> [text |-> <<>>, val |-> 0]

\* The version a request names, in hundredths; current is 11.
RequestedVal(version) ==
    CASE version = <<"current">> -> 1100
      [] version = <<"devel">> -> 0
      [] version \in {<<"0">>, <<"0", ".", "0">>} -> 0
      [] version = <<"10", ".", "5">> -> 1050
      [] version = <<"7", ".", "2">> -> 720
      [] version = <<"12">> -> 1200
      [] version = <<"7", ".", "0">> -> 700
      [] version = <<"9", ".", "3">> -> 930
      [] version = <<"9", ".", "4">> -> 940
      [] version = <<"9", ".", "6">> -> 960
      [] version \in {<<"10">>, <<"10", ".", "0">>} -> 1000
      [] version \in {<<"11">>, <<"11", ".", "0">>} -> 1100

Branches == {930, 940, 960, 1000, 1100}
IsReleaseNotes(filename) == Head(filename) = "release-" /\ filename[2] # "prior"
DecimalForm(version) == RequestedVal(version) >= 1000 /\ Len(version) = 3

\* What the release-notes rule asks of the response to a request for the
\* notes under a version of 9.4 or later, or under devel.
ReleaseRule(response) ==
    LET version == response.rq.version
        filename == response.rq.filename
        rel == ReleaseOf(filename)
        under == IF rel.val < 720 THEN <<"7", ".", "2">> ELSE rel.text
    IN IF rel.text = <<>> THEN response.kind = "notfound"
       ELSE IF rel.val # RequestedVal(version) /\ (version = <<"devel">> => rel.val \in Branches)
       THEN /\ response.kind = "permanent_redirect"
            /\ response.location = <<"/docs/">> \o under \o <<"/">> \o filename \o <<".", "html">>
       ELSE TRUE

\* The response sends the browser to the same file under another version.
SameFileElsewhere(response) ==
    /\ response.kind = "permanent_redirect"
    /\ \E k \in 1..Len(response.location) :
          /\ SubSeq(response.location, k, Len(response.location)) = <<"/">> \o response.rq.filename \o <<".", "html">>
          /\ SubSeq(response.location, 2, k - 1) # response.rq.version

\* C20 as claimed: the rule holds for every request for release notes under
\* a version of 9.4 or later or under devel, and under an earlier version the
\* notes are never redirected to another version.
C20_AsClaimed ==
    (resp.ep = "docpage" /\ IsReleaseNotes(resp.rq.filename)) =>
        IF RequestedVal(resp.rq.version) >= 940 \/ resp.rq.version = <<"devel">>
        THEN ReleaseRule(resp)
        ELSE ~SameFileElsewhere(resp)

\* C20, amended: the same, for the versions that reach the rule: a version of
\* 10 or later written with a decimal point is redirected to its integer form
\* before the file name is looked at.
C20_ReleaseNotes ==
    (resp.ep = "docpage" /\ IsReleaseNotes(resp.rq.filename)) =>
        IF DecimalForm(resp.rq.version)
        THEN /\ resp.kind = "permanent_redirect"
             /\ resp.location = <<"/docs/", ToString(RequestedVal(resp.rq.version) \div 100), "/">>
                                   \o resp.rq.filename \o <<".", "html">>
        ELSE IF RequestedVal(resp.rq.version) >= 940 \/ resp.rq.version = <<"devel">>
        THEN ReleaseRule(resp)
        ELSE ~SameFileElsewhere(resp)

\* The notes of 7.0.1 asked for under 9.6 and found under 7.2.
C20_Witness ==
    /\ resp.ep = "docpage"
    /\ resp.rq.version = <<"9", ".", "6">>
    /\ resp.rq.filename = <<"release-", "7", "-", "0", "-", "1">>
    /\ resp.kind = "permanent_redirect"
    /\ resp.location = <<"/docs/", "7", ".", "2", "/", "release-", "7", "-", "0", "-", "1", ".", "html">>

\* ------------------------------------------------------------------------ C21
\* The numeric versions of 10 and later written with a decimal point, with
\* the integer each is redirected to, and the numeric versions equal to 0.
DecimalVersions ==
    { [version |-> <<"10", ".", "0">>, integer |-> "10"],
      [version |-> <<"11", ".", "0">>, integer |-> "11"],
      [version |-> <<"10", ".", "5">>, integer |-> "10"] }
ZeroVersions == {<<"0">>, <<"0", ".", "0">>}

\* C21: a version of 10 or later written with a decimal point is answered
\* with a permanent redirect to /docs/<integer version>/<filename>.html
\* whatever the file name is (release notes, a page that exists, a page that
\* does not); a numeric version equal to 0 is answered not-found whatever the
\* file name is, while the same page asked for under devel is served.
C21_DecimalForm ==
    resp.ep = "docpage" =>
        /\ \A d \in DecimalVersions :
              resp.rq.version = d.version =>
                  /\ resp.kind = "permanent_redirect"
                  /\ resp.location = <<"/docs/", d.integer, "/">> \o resp.rq.filename \o <<".", "html">>
        /\ resp.rq.version \in ZeroVersions => resp.kind = "notfound"
        /\ (resp.rq.version = <<"devel">> /\ resp.rq.filename = <<"release-", "12">>) => resp.kind = "page"

\* The release notes of 9.6 asked for under 10.5: sent to /docs/10/, not to
\* the notes' own version.
C21_Witness ==
    /\ resp.ep = "docpage"
    /\ resp.rq.version = <<"10", ".", "5">>
    /\ resp.rq.filename = <<"release-", "9", "-", "6">>
    /\ resp.kind = "permanent_redirect"
    /\ resp.location = <<"/docs/", "10", "/", "release-", "9", "-", "6", ".", "html">>

\* ------------------------------------------------------------------------ C24
\* The requests of the chain that ends in the response: those whose redirects
\* were followed, then the one answered.
Chain(response) ==
    Append(response.rq.trail, [version |-> response.rq.version, filename |-> response.rq.filename])

\* The k-th request of the chain was redirected by a version rule: to the
\* same file under another version.  (The redirect of a page alias keeps the
\* version and names another file.)
VersionHop(response, k) ==
    IF k < Len(Chain(response))
    THEN /\ Chain(response)[k + 1].filename = Chain(response)[k].filename
         /\ Chain(response)[k + 1].version # Chain(response)[k].version
    ELSE SameFileElsewhere(response)

\* A version from 10 up written with a decimal point.
WrittenWithPoint(version) == Len(version) = 3 /\ version[1] \in {"10", "11", "12"} /\ version[2] = "."

\* C24: along the redirects a browser follows from any request, at most two
\* are issued by the version rules, the request a release-notes redirect
\* leads to is not redirected by a version rule again, no request is made
\* twice, and the chain ends before the bound on followed redirects.
C24_RedirectsEnd ==
    resp.ep = "docpage" =>
        LET chain == Chain(resp)
        IN /\ Cardinality({k \in 1..Len(chain) : VersionHop(resp, k)}) <= 2
           /\ \A k \in 1..(Len(chain) - 1) :
                 (VersionHop(resp, k) /\ ~WrittenWithPoint(chain[k].version)) =>
                     \A j \in (k + 1)..Len(chain) : ~VersionHop(resp, j)
           /\ \A j, k \in 1..Len(chain) : j # k => chain[j] # chain[k]
           /\ Len(resp.rq.trail) < MaxHops

\* /docs/11.0/notes.html: to 11 by the decimal rule, to release-9-6 by the
\* page alias, to 9.6 by the release-notes rule, and the page is served.
C24_Witness ==
    /\ resp.ep = "docpage" /\ resp.kind = "page"
    /\ resp.rq.version = <<"9", ".", "6">>
    /\ resp.rq.filename = <<"release-", "9", "-", "6">>
    /\ resp.rq.trail = << [version |-> <<"11", ".", "0">>, filename |-> <<"notes">>],
                          [version |-> <<"11">>, filename |-> <<"notes">>],
                          [version |-> <<"11">>, filename |-> <<"release-", "9", "-", "6">>] >>

\* ------------------------------------------------------------------------ C22
\* The secondary addresses of a user in a table of rows.
AddressesOf(rows, u) == {a.email : a \in {x \in rows : x.user = u}}
ConfirmedOf(rows, u) == {a.email : a \in {x \in rows : x.user = u /\ x.confirmed}}

\* The step changes the primary email of u.
ChangesPrimary(u) == users'[u].email # users[u].email

\* After the step no user's primary email is among their secondary ones, and
\* the accounts created through OAuth have the primary email they had.
PrimaryApart ==
    \A u \in Users :
        /\ users'[u].email \notin AddressesOf(secondaryemail'.rows, u)
        /\ users[u].password = OAUTH_PASSWORD_STORE => ~ChangesPrimary(u)

TargetSite(url) == IF Len(url) >= 2 THEN url[2] ELSE ""
TargetGET(url) ==
    LET q == SubSeq(url, 5, Len(url))
        pairs == IF Len(url) >= 5 /\ url[4] = "?" THEN parse_qsl(q) ELSE <<>>
        first(key) == pairs[CHOOSE i \in 1..Len(pairs) :
                               pairs[i].k = key /\ \A j \in 1..(i - 1) : pairs[j].k # key].v
    IN [key \in {k \in {"d", "su"} :
                    \E i \in 1..Len(pairs) : pairs[i].k = (IF k = "d" THEN <<"d">> ELSE <<"s", "u">>)}
          |-> first(IF key = "d" THEN <<"d">> ELSE <<"s", "u">>)]

\* The next target of a consent redirect, as the consent view reads it from
\* its own query string and posts it back.
ConsentNextTarget(response) ==
    IF Len(response.location) >= 6 /\ response.location[6] = "%2Faccount%2Fauth%2F"
    THEN <<"/account/auth/">> \o unquote_plus(SubSeq(response.location, 7, Len(response.location)))
    ELSE <<>>

\* C23 as claimed: the next target of the consent step a handoff is sent to
\* is the same handoff, the same site id with the same payload, and the
\* consent step is entered only while the user has no consent record for the
\* organisation, so not again once the form was submitted.
C23_AsClaimed ==
    (resp.ep = "communityauth" /\ resp.kind = "consent_redirect") =>
        /\ TargetSite(ConsentNextTarget(resp)) = ToString(resp.siteid)
        /\ Choice(TargetGET(ConsentNextTarget(resp))) = Choice(resp.rq.GET)
        /\ ~\E c \in consents : c.user = resp.user /\ c.org = CommunityAuthSite[resp.siteid].org

\* ------------------------------------------------------------------------ C25
\* The OAuth values a session holds.
OAuthHeld(b) == DOMAIN sess[b] \cap {"oauth_email", "oauth_firstname", "oauth_lastname"}

\* A step in which signup_oauth creates an account, or is aborted by a GET
\* with do_abort from a session that holds the three values.
CreatesAccount == DOMAIN users' # DOMAIN users
Aborted ==
    /\ AnswersSignup /\ resp'.rq.method = "GET" /\ "do_abort" \in DOMAIN resp'.rq.GET
    /\ Cardinality(OAuthHeld(resp'.rq.b)) = 3

\* C25: the step that creates the account or aborts leaves none of the three
\* OAuth values in the session; a session without them stays without them
\* and gets 'Invalid redirect received' from every signup_oauth request,
\* which creates nothing; so never more than one account is created from the
\* values the session began with.
C25_OneAccount ==
    [][/\ (CreatesAccount \/ Aborted) =>
             \E b \in Browsers : AnswersSignup /\ resp'.rq.b = b /\ OAuthHeld(b)' = {}
       /\ \A b \in Browsers :
             OAuthHeld(b) = {} =>
                 /\ OAuthHeld(b)' = {}
                 /\ (AnswersSignup /\ resp'.rq.b = b) =>
                        /\ resp'.kind = "oauth_error"
                        /\ resp'.location = <<"Invalid redirect received">>
                        /\ ~CreatesAccount
       /\ Cardinality(DOMAIN users') <= Cardinality(Users) + 1]_vars

\* After the account was created, a second valid POST with a free username
\* is answered with the error.
C25_Witness ==
    /\ resp.ep = "signup_oauth" /\ resp.kind = "oauth_error"
    /\ resp.rq.method = "POST" /\ resp.rq.POST.username = <<"c">>
    /\ Cardinality(DOMAIN users) = Cardinality(Users) + 1
    /\ users[Cardinality(Users) + 1].password = OAUTH_PASSWORD_STORE
====
